---------------------------- MODULE Spec2Model ----------------------------
(***************************************************************************)
(* A model of the FastWorker dispatch core: the control plane's result     *)
(* cache, subworker registry and priority loops                            *)
(* (fastworker/workers/control_plane.py), the execution engine             *)
(* (fastworker/workers/worker.py) and the client                           *)
(* (fastqueue/clients/client.py).                                          *)
(*                                                                         *)
(* Each subsystem has its own specification over the same variables:       *)
(*   SpecCache     _store_result / _get_result / cache sweeper, with time  *)
(*   SpecRegistry  registration handler and liveness monitor, with time    *)
(*   SpecDispatch  the four priority loops, forwarding, the distributor    *)
(*   SpecClient    delay, the submission activity, listener and drainer    *)
(*   SpecSubworker the subworker's registration and heartbeat loop         *)
(*   SpecShutdown  start, the shutdown signal and stop of the control plane*)
(*   SpecPorts     the port of the registration channel on both sides      *)
(*   SpecRevive    the registry with the monitor, the clock and forwarding *)
(*   SpecEngine    one priority endpoint of a worker, with callbacks       *)
(*   SpecStartup   start of the control plane, activity by activity        *)
(* A coroutine is cut into steps at its awaits that really suspend: what   *)
(* runs between two suspension points is one action (SpecStartup also cuts *)
(* start where a pattern's start is awaited, to show that it is no such    *)
(* point).                                                                 *)
(***************************************************************************)
EXTENDS Integers, Sequences, FiniteSets, TLC

(***************************************************************************)
(* Bounds of the model.                                                    *)
(***************************************************************************)
MaxCacheSize == 2       \* result_cache_max_size is configured in 1..MaxCacheSize
MaxTTL == 1             \* result_cache_ttl_seconds is configured in 1..MaxTTL
MaxCacheTime == 2       \* the cache clock runs over 0..MaxCacheTime
MaxTime == 45           \* the registry clock runs over 0..MaxTime (seconds)
MaxRegs == 3            \* messages the registration loop receives in one run
MaxDispatchRegs == 2    \* registration messages received while the loops are observed
MaxRequests == 2        \* requests the control plane receives in one run
MaxRetries == 2         \* Client.retries is configured in 0..MaxRetries
MaxDelays == 2          \* calls of Client.delay in one run
MaxQueries == 2         \* queries received on the result-query endpoint

(***************************************************************************)
(* Program constants.                                                      *)
(***************************************************************************)
StaleThreshold == 30    \* stale_threshold
SweepInterval == 5      \* asyncio.sleep(5.0) of the liveness monitor

TaskIds == {"task-0", "task-1", "task-2"}
Priorities == {"critical", "high", "normal", "low"}
None == "None"

VARIABLES
    \* ---- control plane: result cache
    result_cache,            \* OrderedDict task_id -> entry, as a sequence, LRU first
    result_cache_max_size,   \* self.result_cache_max_size
    result_cache_ttl_seconds,\* self.result_cache_ttl_seconds
    now,                     \* datetime.now(), in seconds
    get_returned,            \* what the latest _get_result call returned
    touched,                 \* history: distinct keys by recency of store / successful get
    \* ---- control plane: subworker registry and liveness monitor
    subworkers,              \* self.subworkers, a dict in insertion order: a sequence of records
    next_sweep,              \* when the monitor's asyncio.sleep(5.0) ends
    reg_handled,             \* messages the registration loop has received
    reg_acks,                \* acknowledgments the registration loop has sent
    \* ---- control plane: the four priority loops and the distributor
    pc,                      \* where each priority loop of _process_tasks stands
    cur,                     \* the Task the loop is handling
    target,                  \* the subworker _select_subworker returned for it
    fwd_outcome,             \* what the subworker's endpoint will do with the forwarded Task
    task_queue,              \* self.task_queue: one deque per priority
    replies,                 \* the TaskResults sent to clients, per priority endpoint
    bg_executed,             \* tasks the distributor handed to a background _execute_task
    requests_received,       \* requests received on the priority endpoints
    requesters               \* per loop: outbound requesters started and not closed

cacheVars == <<result_cache, result_cache_max_size, result_cache_ttl_seconds,
               get_returned, touched>>
registryVars == <<subworkers, next_sweep, reg_handled, reg_acks>>
loopVars == <<pc, cur, target, fwd_outcome, task_queue, replies, bg_executed,
              requests_received, requesters>>

serverVars == <<cacheVars, now, registryVars, loopVars>>

\* the Client object (fastqueue/clients/client.py) and its activities
VARIABLES running, discovery_bus, workers, pending_tasks, task_results,
          retries, retries_arg, activities, next_task, queued, drained
clientVars == <<running, discovery_bus, workers, pending_tasks, task_results,
                retries, retries_arg, activities, next_task, queued, drained>>

\* a run of Worker._execute_task: the Task object it works on and what it returned
VARIABLES exec_task, exec_result
execVars == <<exec_task, exec_result>>

\* the result-query endpoint of the control plane and Client.get_task_result
VARIABLES queries_received, query_responses, query_response, get_task_result_returned
queryVars == <<queries_received, query_responses, query_response,
               get_task_result_returned>>

\* Worker.peers, filled by _listen_for_peers
VARIABLES peers
peerVars == <<peers>>

\* a SubWorker (fastworker/workers/subworker.py): its registration with the
\* control plane and its heartbeat loop
VARIABLES registered,     \* self.registered
          sub_running,    \* self.running of the subworker
          sub_pc,         \* where start / _periodic_reregistration stands
          sub_loop,       \* the _periodic_reregistration activity has been created
          last_ack,       \* status of the ack the latest wait returned, None without one
          endpoint,       \* what the dialed registration endpoint does with a message
          ticks,          \* how many asyncio.sleep(10.0) of the loop have ended
          unanswered      \* a message was sent on the current socket and no ack read
subVars == <<registered, sub_running, sub_pc, sub_loop, last_ack, endpoint, ticks,
            unanswered>>

\* the life of the control plane process: ControlPlaneWorker.start and stop
VARIABLES cp_pc,          \* where start stands: new, wait (shutdown_event.wait()), stopped
          cp_running,     \* self.running of the control plane
          shutdown_event, \* self.shutdown_event.is_set()
          loop_state,     \* per loop: new, running, cancelled, ended
          sockets         \* per listening socket: new, open, closed
shutVars == <<cp_pc, cp_running, shutdown_event, loop_state, sockets>>

\* the ports of the registration channel, as the two constructors compute them
VARIABLES cp_base_port,      \* port of the control plane's base address; 0 without one
          registry_port,     \* port the control plane's subworker_registry listens on
          sub_cp_port,       \* port of the control-plane address given to the SubWorker
          management_port    \* port the SubWorker's control_plane_registry dials
portVars == <<cp_base_port, registry_port, sub_cp_port, management_port>>

\* one priority endpoint of a Worker (fastworker/workers/worker.py): _process_tasks
\* with _execute_task and _send_callback
VARIABLES wk_pc,          \* where the loop stands: recv, call, cb_dial, cb_send, reply
          wk_task,        \* the Task of the round
          wk_result,      \* the TaskResult _execute_task has built, NoResult before
          wk_received,    \* well-formed Tasks received so far
          wk_malformed,   \* messages received that were no Task
          wk_sends,       \* TaskResults handed to respondent.send, in order
          cb_calls,       \* calls of _send_callback in this execution
          pair_sockets,   \* Pair sockets created in this execution
          pair_open,      \* Pair sockets created and not closed
          callbacks       \* callback payloads delivered, in order
engineVars == <<wk_pc, wk_task, wk_result, wk_received, wk_malformed, wk_sends,
                cb_calls, pair_sockets, pair_open, callbacks>>

moreVars == <<subVars, shutVars, portVars, engineVars>>

restVars == <<execVars, queryVars, peerVars, moreVars>>

vars == <<serverVars, clientVars, restVars>>

(***************************************************************************)
(* TaskResult (fastworker/tasks/models.py): the fields the core reads.     *)
(***************************************************************************)
TaskResult(id, status, error) == [task_id |-> id, status |-> status, error |-> error]

Statuses == {"pending", "started", "success", "failure"}

\* the Python None where a TaskResult is expected
NoResult == TaskResult(None, None, None)

(***************************************************************************)
(* Task (fastworker/tasks/models.py): id, name and priority.               *)
(***************************************************************************)
Task(id, name, priority) == [id |-> id, name |-> name, priority |-> priority]

NoTask == Task(None, None, None)

\* the Task object inside a worker, with the fields _execute_task writes
ExecTask(id, name, status, started_at) ==
    [id |-> id, name |-> name, status |-> status, started_at |-> started_at]

NoExecTask == ExecTask(None, None, None, -1)

\* the TaskResult _execute_task builds, with every field it sets
ExecResult(id, status, result, error, started_at, completed_at) ==
    [task_id |-> id, status |-> status, result |-> result, error |-> error,
     started_at |-> started_at, completed_at |-> completed_at]

NoExecResult == ExecResult(None, None, None, None, -1, -1)

\* a response of the result-query endpoint
QueryResponse(found, result, error) ==
    [found |-> found, result |-> result, error |-> error]

NoResponse == QueryResponse(None, NoResult, None)

(***************************************************************************)
(* Client.__init__ (fastqueue/clients/client.py).                          *)
(***************************************************************************)
DefaultRetries == 3        \* os.getenv("FASTQUEUE_RETRIES", "3")

NoArg == -1                \* retries: Optional[int] = None, the argument left out

\* self.retries = retries or int(os.getenv("FASTQUEUE_RETRIES", "3")):
\* an argument of None or 0 is falsy and yields the environment's value
ClientRetries(arg, env) == IF arg = NoArg \/ arg = 0 THEN env ELSE arg

InitClient(arg, env) ==
    /\ running = FALSE
    /\ discovery_bus = "new"
    /\ workers = {}
    /\ pending_tasks = <<>>
    /\ task_results = [id \in TaskIds |-> NoResult]
    /\ retries_arg = arg
    /\ retries = ClientRetries(arg, env)
    /\ activities = <<>>
    /\ next_task = 0
    /\ queued = <<>>
    /\ drained = <<>>

(***************************************************************************)
(* The result cache.                                                       *)
(***************************************************************************)
CacheKeys(cache) == {cache[i].task_id : i \in 1..Len(cache)}

CacheEntry(cache, k) == cache[CHOOSE i \in 1..Len(cache) : cache[i].task_id = k]

\* del self.result_cache[task_id]
CacheDelete(cache, k) == SelectSeq(cache, LAMBDA e : e.task_id # k)

\* a variant that evicts only when the cache is over its maximum (> for >=)
RECURSIVE EvictOldestOffByOne(_, _)
EvictOldestOffByOne(cache, max_size) ==
    IF Len(cache) > max_size /\ Len(cache) > 0
    THEN EvictOldestOffByOne(Tail(cache), max_size)
    ELSE cache

\* while len(self.result_cache) >= self.result_cache_max_size: delete the first item
RECURSIVE EvictOldest(_, _)
EvictOldest(cache, max_size) ==
    IF Len(cache) >= max_size /\ Len(cache) > 0
    THEN EvictOldest(Tail(cache), max_size)
    ELSE cache

\* a variant that measures the age from the last access
IsExpiredSinceAccess(entry, t, ttl) == t - entry.last_accessed > ttl

\* age > self.result_cache_ttl_seconds, age = now - stored_at
IsExpired(entry, t, ttl) == t - entry.stored_at > ttl

\* a store that makes room before it removes the old entry of the key
StoreResultCacheEvictsFirst(cache, max_size, result, t) ==
    Append(CacheDelete(EvictOldest(cache, max_size), result.task_id),
           [task_id |-> result.task_id, result |-> result,
            stored_at |-> t, last_accessed |-> t])
\* _store_result: the cache after the call
StoreResultCache(cache, max_size, result, t) ==
    Append(EvictOldest(CacheDelete(cache, result.task_id), max_size),
           [task_id |-> result.task_id, result |-> result,
            stored_at |-> t, last_accessed |-> t])

\* _get_result: the value returned
GetResultValue(cache, k, t, ttl) ==
    IF k \notin CacheKeys(cache) THEN NoResult
    ELSE IF IsExpired(CacheEntry(cache, k), t, ttl) THEN NoResult
    ELSE CacheEntry(cache, k).result

\* a variant without move_to_end
GetResultCacheNoMove(cache, k, t, ttl) ==
    IF k \notin CacheKeys(cache) THEN cache
    ELSE IF IsExpired(CacheEntry(cache, k), t, ttl) THEN CacheDelete(cache, k)
    ELSE [i \in 1..Len(cache) |->
            IF cache[i].task_id = k THEN [cache[i] EXCEPT !.last_accessed = t]
            ELSE cache[i]]

\* _get_result: the cache after the call
GetResultCache(cache, k, t, ttl) ==
    IF k \notin CacheKeys(cache) THEN cache
    ELSE IF IsExpired(CacheEntry(cache, k), t, ttl) THEN CacheDelete(cache, k)
    ELSE Append(CacheDelete(cache, k),
                [CacheEntry(cache, k) EXCEPT !.last_accessed = t])

\* a pass that also removes the entries whose age equals the TTL
CleanupCacheAtThreshold(cache, t, ttl) ==
    SelectSeq(cache, LAMBDA e : t - e.stored_at < ttl)
\* one pass of _cleanup_result_cache
CleanupCache(cache, t, ttl) == SelectSeq(cache, LAMBDA e : ~IsExpired(e, t, ttl))

\* history of touches: k becomes the most recently touched key
Touch(hist, k) == Append(SelectSeq(hist, LAMBDA x : x # k), k)

StoreResult(result) ==
    /\ result_cache' = StoreResultCache(result_cache, result_cache_max_size, result, now)
    /\ touched' = Touch(touched, result.task_id)
    /\ UNCHANGED <<result_cache_max_size, result_cache_ttl_seconds, now, get_returned>>
    /\ UNCHANGED <<registryVars, loopVars>>
    /\ UNCHANGED <<clientVars, restVars>>

GetResult(k) ==
    /\ result_cache' = GetResultCache(result_cache, k, now, result_cache_ttl_seconds)
    /\ get_returned' = [task_id |-> k,
                        value |-> GetResultValue(result_cache, k, now,
                                                 result_cache_ttl_seconds)]
    /\ touched' = IF GetResultValue(result_cache, k, now, result_cache_ttl_seconds) # NoResult
                  THEN Touch(touched, k) ELSE touched
    /\ UNCHANGED <<result_cache_max_size, result_cache_ttl_seconds, now>>
    /\ UNCHANGED <<registryVars, loopVars>>
    /\ UNCHANGED <<clientVars, restVars>>

CleanupResultCache ==
    /\ result_cache' = CleanupCache(result_cache, now, result_cache_ttl_seconds)
    /\ UNCHANGED <<result_cache_max_size, result_cache_ttl_seconds, now,
                   get_returned, touched>>
    /\ UNCHANGED <<registryVars, loopVars>>
    /\ UNCHANGED <<clientVars, restVars>>

CacheTick ==
    /\ now < MaxCacheTime
    /\ now' = now + 1
    /\ UNCHANGED <<cacheVars, registryVars, loopVars>>
    /\ UNCHANGED <<clientVars, restVars>>

CacheResults == {TaskResult(k, "success", None) : k \in TaskIds}
                \cup {TaskResult(k, "failure", "error") : k \in TaskIds}

\* the control plane after __init__
InitControlPlane ==
    /\ result_cache = <<>>
    /\ result_cache_max_size \in 1..MaxCacheSize
    /\ result_cache_ttl_seconds \in 1..MaxTTL
    /\ now = 0
    /\ get_returned = [task_id |-> None, value |-> NoResult]
    /\ touched = <<>>
    /\ subworkers = <<>>
    /\ next_sweep = 0
    /\ reg_handled = 0
    /\ reg_acks = 0
    /\ pc = [p \in Priorities |-> "recv"]
    /\ cur = [p \in Priorities |-> NoTask]
    /\ target = [p \in Priorities |-> None]
    /\ fwd_outcome = [p \in Priorities |-> None]
    /\ task_queue = [p \in Priorities |-> <<>>]
    /\ replies = [p \in Priorities |-> <<>>]
    /\ bg_executed = {}
    /\ requests_received = 0
    /\ requesters = [p \in Priorities |-> 0]
    /\ exec_task = NoExecTask
    /\ wk_pc = "recv"
    /\ wk_task = [id |-> None, name |-> None, callback |-> FALSE]
    /\ wk_result = NoResult
    /\ wk_received = 0
    /\ wk_malformed = 0
    /\ wk_sends = <<>>
    /\ cb_calls = 0
    /\ pair_sockets = 0
    /\ pair_open = 0
    /\ callbacks = <<>>
    /\ exec_result = NoExecResult
    /\ queries_received = 0
    /\ query_responses = 0
    /\ query_response = NoResponse
    /\ get_task_result_returned = [task_id |-> None, value |-> NoResult]
    /\ peers = {}
    /\ registered = FALSE
    /\ sub_running = FALSE
    /\ sub_pc = "new"
    /\ sub_loop = FALSE
    /\ last_ack = None
    /\ endpoint = "answering"
    /\ ticks = 0
    /\ unanswered = FALSE
    /\ cp_base_port = -1
    /\ registry_port = -1
    /\ sub_cp_port = -1
    /\ management_port = -1
    /\ cp_pc = "new"
    /\ cp_running = FALSE
    /\ shutdown_event = FALSE
    /\ loop_state = [l \in {"critical", "high", "normal", "low", "distributor",
                             "monitor", "sweeper", "registrations", "queries",
                             "announcer", "peers"} |-> "new"]
    /\ sockets = [k \in {"critical", "high", "normal", "low", "result_query",
                          "registry", "discovery_bus"} |-> "new"]

InitCache == InitControlPlane /\ InitClient(NoArg, DefaultRetries)

NextCache ==
    \/ \E r \in CacheResults : StoreResult(r)
    \/ \E k \in TaskIds : GetResult(k)
    \/ CleanupResultCache
    \/ CacheTick

SpecCache == InitCache /\ [][NextCache]_vars

(***************************************************************************)
(* The subworker registry: registration handler, liveness monitor and      *)
(* _select_subworker.                                                      *)
(***************************************************************************)
SubworkerIds == {"sw1", "sw2"}
Addresses == {"tcp://10.0.0.1:6000", "tcp://10.0.0.2:6000"}

RegisteredIds(sws) == {sws[i].id : i \in 1..Len(sws)}

Record(sws, sid) == sws[CHOOSE i \in 1..Len(sws) : sws[i].id = sid]

\* a handler that replaces the record of a known id by a new one
RegistrationUpdateReplaces(sws, sid, addr, status, t) ==
    IF sid \in RegisteredIds(sws)
    THEN [i \in 1..Len(sws) |->
            IF sws[i].id = sid
            THEN [id |-> sid, address |-> addr, status |-> status,
                  last_seen |-> t, load |-> 0, registered_at |-> t]
            ELSE sws[i]]
    ELSE Append(sws, [id |-> sid, address |-> addr, status |-> status,
                      last_seen |-> t, load |-> 0, registered_at |-> t])

\* the body of the registration handler for a message with both fields set:
\* a known id gets last_seen and status, an unknown id a new record
RegistrationUpdate(sws, sid, addr, status, t) ==
    IF sid \in RegisteredIds(sws)
    THEN [i \in 1..Len(sws) |->
            IF sws[i].id = sid
            THEN [sws[i] EXCEPT !.last_seen = t, !.status = status]
            ELSE sws[i]]
    ELSE Append(sws, [id |-> sid, address |-> addr, status |-> status,
                      last_seen |-> t, load |-> 0, registered_at |-> t])

\* one iteration of _handle_subworker_registrations; a missing field is None
HandleSubworkerRegistration(sid, addr, status) ==
    /\ reg_handled < MaxRegs
    /\ reg_handled' = reg_handled + 1
    /\ IF sid # None /\ addr # None
       THEN /\ subworkers' = RegistrationUpdate(subworkers, sid, addr, status, now)
            /\ reg_acks' = reg_acks + 1
       ELSE UNCHANGED <<subworkers, reg_acks>>
    /\ UNCHANGED <<cacheVars, now, next_sweep, loopVars>>
    /\ UNCHANGED <<clientVars, restVars>>

\* a variant of the staleness test that never finds a record stale
IsStaleNever(info, t) == FALSE

\* a variant of the staleness test that includes the threshold itself
IsStaleAtThreshold(info, t) == t - info.last_seen >= StaleThreshold

\* time_since_seen > stale_threshold
IsStale(info, t) == t - info.last_seen > StaleThreshold

\* a sweep that drops the stale records
MonitorSweepDeletes(sws, t) == SelectSeq(sws, LAMBDA r : ~IsStale(r, t))
\* the for loop of _monitor_subworkers
MonitorSweep(sws, t) ==
    [i \in 1..Len(sws) |->
        IF IsStale(sws[i], t) THEN [sws[i] EXCEPT !.status = "inactive"] ELSE sws[i]]

\* one iteration of _monitor_subworkers: the sweep, then asyncio.sleep(5.0)
MonitorSubworkers ==
    /\ now >= next_sweep
    /\ subworkers' = MonitorSweep(subworkers, now)
    /\ next_sweep' = now + SweepInterval
    /\ UNCHANGED <<cacheVars, now, reg_handled, reg_acks, loopVars>>
    /\ UNCHANGED <<clientVars, restVars>>

\* time passes until the monitor's sleep ends
RegistryTick ==
    /\ now < next_sweep
    /\ next_sweep <= MaxTime
    /\ now' = next_sweep
    /\ UNCHANGED <<cacheVars, registryVars, loopVars>>
    /\ UNCHANGED <<clientVars, restVars>>

\* a variant that ignores the status and takes the least loaded record
SelectSubworkerAnyStatus(sws, priority) ==
    IF sws = <<>> THEN None
    ELSE sws[CHOOSE i \in 1..Len(sws) :
                /\ \A j \in 1..Len(sws) : sws[i].load <= sws[j].load
                /\ \A j \in 1..(i - 1) : sws[j].load > sws[i].load].id

\* _select_subworker: min() over the active records keeps the first minimum
SelectSubworker(sws, priority) ==
    LET active == SelectSeq(sws, LAMBDA r : r.status = "active")
    IN  IF active = <<>> THEN None
        ELSE active[CHOOSE i \in 1..Len(active) :
                /\ \A j \in 1..Len(active) : active[i].load <= active[j].load
                /\ \A j \in 1..(i - 1) : active[j].load > active[i].load].id

\* what subworkers send: their id, their base address, status "active"
RegMessages ==
    {<<sid, addr>> : sid \in SubworkerIds, addr \in Addresses}
    \cup {<<None, addr>> : addr \in Addresses}
    \cup {<<sid, None>> : sid \in SubworkerIds}

\* a control plane whose cache configuration is fixed
InitFixedCache ==
    /\ InitControlPlane
    /\ result_cache_max_size = MaxCacheSize
    /\ result_cache_ttl_seconds = MaxTTL

InitRegistry == InitFixedCache /\ InitClient(NoArg, DefaultRetries)

NextRegistry ==
    \/ \E m \in RegMessages : HandleSubworkerRegistration(m[1], m[2], "active")
    \/ MonitorSubworkers
    \/ RegistryTick

SpecRegistry == InitRegistry /\ [][NextRegistry]_vars

(***************************************************************************)
(* The execution engine (Worker._execute_task): the TaskResult of a Task.  *)
(***************************************************************************)
RegisteredTasks == {"add", "boom"}     \* task_registry: names with a callable
RaisingTasks == {"boom"}               \* callables that raise
UnregisteredNames == {"missing"}       \* names task_registry.get_task does not know
TaskNames == RegisteredTasks \cup UnregisteredNames

\* what the callable registered under the name returns
ReturnValue(name) == IF name = "add" THEN "5" ELSE None

\* f"Task {task.name} not found"
NotFoundMessage(name) ==
    IF name = "missing" THEN "Task missing not found" ELSE "Task not found"

\* str(e) of the exception the callable raises
ExceptionMessage(name) == IF name = "boom" THEN "boom failed" ELSE "failed"

\* an engine that calls whatever the name is, without the registry lookup
CallOutcomeNoLookup(name) ==
    IF name \in RaisingTasks
    THEN [status |-> "failure", result |-> None, error |-> ExceptionMessage(name)]
    ELSE [status |-> "success", result |-> ReturnValue(name), error |-> None]

\* the try block of _execute_task: lookup, call, and the except branch
CallOutcome(name) ==
    IF name \notin RegisteredTasks
    THEN [status |-> "failure", result |-> None, error |-> NotFoundMessage(name)]
    ELSE IF name \in RaisingTasks
    THEN [status |-> "failure", result |-> None, error |-> ExceptionMessage(name)]
    ELSE [status |-> "success", result |-> ReturnValue(name), error |-> None]

\* the TaskResult as the loops, the cache and the client keep it
ExecuteTask(task) ==
    TaskResult(task.id, CallOutcome(task.name).status, CallOutcome(task.name).error)

\* the TaskResult with every field _execute_task sets; t is datetime.now() when
\* the callable is over
ExecuteTaskAt(task, t) ==
    ExecResult(task.id, CallOutcome(task.name).status, CallOutcome(task.name).result,
               CallOutcome(task.name).error, task.started_at, t)

\* Worker._process_tasks: a Task arrives and is deserialized; its status is the
\* model's default, PENDING
WorkerReceiveTask(id, name) ==
    /\ exec_task = NoExecTask \/ exec_result # NoExecResult
    /\ exec_task' = ExecTask(id, name, "pending", -1)
    /\ exec_result' = NoExecResult
    /\ UNCHANGED <<serverVars, clientVars, queryVars, peerVars, moreVars>>

\* _execute_task up to the call: task.status = STARTED, task.started_at = now
ExecuteStart ==
    /\ exec_task.status = "pending"
    /\ exec_task' = [exec_task EXCEPT !.status = "started", !.started_at = now]
    /\ UNCHANGED <<exec_result, serverVars, clientVars, queryVars, peerVars, moreVars>>

\* the call is over (it returned, raised, or the name was unknown): the TaskResult
\* is built and returned; the Task object's status is not written again
ExecuteFinish ==
    /\ exec_task.status = "started"
    /\ exec_result = NoExecResult
    /\ exec_result' = ExecuteTaskAt(exec_task, now)
    /\ UNCHANGED <<exec_task, serverVars, clientVars, queryVars, peerVars, moreVars>>

InitExecute == InitFixedCache /\ InitClient(NoArg, DefaultRetries)

NextExecute ==
    \/ \E id \in TaskIds, name \in TaskNames : WorkerReceiveTask(id, name)
    \/ ExecuteStart
    \/ ExecuteFinish
    \/ CacheTick

SpecExecute == InitExecute /\ [][NextExecute]_vars

(***************************************************************************)
(* The priority loops (_process_tasks), forwarding                         *)
(* (_send_task_to_subworker) and the distributor (_distribute_queued_tasks)*)
(***************************************************************************)
\* an increment that counts every forward twice
IncrementLoadByTwo(sws, sid) ==
    [i \in 1..Len(sws) |->
        IF sws[i].id = sid THEN [sws[i] EXCEPT !.load = @ + 2] ELSE sws[i]]
\* self.subworkers[sid]["load"] += 1
IncrementLoad(sws, sid) ==
    [i \in 1..Len(sws) |->
        IF sws[i].id = sid THEN [sws[i] EXCEPT !.load = @ + 1] ELSE sws[i]]

\* a decrement without the floor
DecrementLoadNoFloor(sws, sid) ==
    [i \in 1..Len(sws) |->
        IF sws[i].id = sid THEN [sws[i] EXCEPT !.load = @ - 1] ELSE sws[i]]

\* self.subworkers[sid]["load"] = max(0, load - 1)
DecrementLoad(sws, sid) ==
    [i \in 1..Len(sws) |->
        IF sws[i].id = sid
        THEN [sws[i] EXCEPT !.load = IF @ - 1 > 0 THEN @ - 1 ELSE 0]
        ELSE sws[i]]

\* the base address a forward to sid dials (the priority's port offset is added
\* to its port): subworker_info["address"] of the record
DialAddress(sws, sid) == Record(sws, sid).address

\* self.task_queue[task.priority].appendleft(task)
Requeue(queues, task) == [queues EXCEPT ![task.priority] = <<task>> \o @]

\* a loop that replies without having stored the result
StoredNothing(result) == result_cache
\* the cache after _store_result(result) at the current time
Stored(result) ==
    StoreResultCache(result_cache, result_cache_max_size, result, now)

StoreInCache(result) ==
    /\ result_cache' = Stored(result)
    /\ touched' = Touch(touched, result.task_id)
    /\ UNCHANGED <<result_cache_max_size, result_cache_ttl_seconds, get_returned>>

\* requester = ReqRepPattern(priority_address, is_server=False);
\* await requester.start(): the loop p holds one more open dialer
StartRequester(open, p) == [open EXCEPT ![p] = @ + 1]

\* requester.close()
CloseRequester(open, p) == [open EXCEPT ![p] = @ - 1]

\* a loop that stays where it is after its send
BackToRecvStaysInRound(p) == UNCHANGED <<pc, fwd_outcome, cur, target>>
\* the round is over: the loop is back at respondent.recv(), and the locals of
\* the round (task, subworker) are dead
BackToRecv(p) ==
    /\ pc' = [pc EXCEPT ![p] = "recv"]
    /\ fwd_outcome' = [fwd_outcome EXCEPT ![p] = None]
    /\ cur' = [cur EXCEPT ![p] = NoTask]
    /\ target' = [target EXCEPT ![p] = None]

\* respondent.recv() returns a Task; _select_subworker; then either the dial of
\* _send_task_to_subworker (up to the await of requester.send) or the local path
ReceiveTask(p, id, name, dial_ok) ==
    LET task == Task(id, name, p)
        sw == SelectSubworker(subworkers, p)
    IN  /\ pc[p] = "recv"
        /\ requests_received < MaxRequests
        /\ requests_received' = requests_received + 1
        /\ IF sw = None
           THEN /\ dial_ok
                /\ pc' = [pc EXCEPT ![p] = "local_exec"]
                /\ cur' = [cur EXCEPT ![p] = task]
                /\ UNCHANGED <<target, fwd_outcome, task_queue, requesters>>
           ELSE IF dial_ok
           THEN /\ pc' = [pc EXCEPT ![p] = "fwd_send"]
                /\ cur' = [cur EXCEPT ![p] = task]
                /\ target' = [target EXCEPT ![p] = sw]
                /\ requesters' = StartRequester(requesters, p)
                /\ UNCHANGED <<fwd_outcome, task_queue>>
           ELSE \* requester.start() raised: the outer except re-queues the task
                /\ task_queue' = Requeue(task_queue, task)
                /\ UNCHANGED <<pc, cur, target, fwd_outcome, requesters>>
        /\ UNCHANGED <<cacheVars, now, registryVars, replies, bg_executed>>
        /\ UNCHANGED <<clientVars, restVars>>

\* what the subworker's endpoint does with a Task it was sent
\* (Worker._process_tasks on the subworker): it executes the Task and replies, the
\* connection breaks, or nothing ever comes back
ForwardOutcomes == {"reply", "error", "silent"}

\* await requester.send(task_data) returns or raises
ForwardSend(p, ok, outcome) ==
    /\ pc[p] = "fwd_send"
    /\ IF ok
       THEN /\ subworkers' = IncrementLoad(subworkers, target[p])
            /\ pc' = [pc EXCEPT ![p] = "fwd_recv"]
            /\ fwd_outcome' = [fwd_outcome EXCEPT ![p] = outcome]
            /\ UNCHANGED <<task_queue, cur, target, requesters>>
       ELSE /\ outcome = "error"
            /\ subworkers' = DecrementLoad(subworkers, target[p])
            /\ task_queue' = Requeue(task_queue, cur[p])
            /\ requesters' = CloseRequester(requesters, p)
            /\ BackToRecv(p)
    /\ UNCHANGED <<cacheVars, now, next_sweep, reg_handled, reg_acks,
                   replies, bg_executed, requests_received>>
    /\ UNCHANGED <<clientVars, restVars>>

\* await requester.recv() returns the subworker's reply, or raises; there is no
\* timeout on this wait, so a silent subworker leaves the loop here
ForwardRecv(p) ==
    /\ pc[p] = "fwd_recv"
    /\ fwd_outcome[p] \in {"reply", "error"}
    /\ IF fwd_outcome[p] = "error"
       THEN /\ subworkers' = DecrementLoad(subworkers, target[p])
            /\ task_queue' = Requeue(task_queue, cur[p])
            /\ requesters' = CloseRequester(requesters, p)
            /\ BackToRecv(p)
            /\ UNCHANGED cacheVars
       ELSE /\ StoreInCache(ExecuteTask(cur[p]))
            /\ subworkers' = DecrementLoad(subworkers, target[p])
            /\ pc' = [pc EXCEPT ![p] = "fwd_reply"]
            /\ UNCHANGED <<task_queue, fwd_outcome, cur, target, requesters>>
    /\ UNCHANGED <<now, next_sweep, reg_handled, reg_acks, replies,
                   bg_executed, requests_received>>
    /\ UNCHANGED <<clientVars, restVars>>

\* await original_respondent.send(result_data) returns or raises
ForwardReply(p, ok) ==
    /\ pc[p] = "fwd_reply"
    /\ IF ok
       THEN \* the try block ends after the send: nothing closes the requester
            /\ replies' = [replies EXCEPT ![p] = Append(@, ExecuteTask(cur[p]))]
            /\ UNCHANGED <<subworkers, task_queue, requesters>>
       ELSE /\ subworkers' = DecrementLoad(subworkers, target[p])
            /\ task_queue' = Requeue(task_queue, cur[p])
            /\ requesters' = CloseRequester(requesters, p)
            /\ UNCHANGED replies
    /\ BackToRecv(p)
    /\ UNCHANGED <<cacheVars, now, next_sweep, reg_handled, reg_acks,
                   bg_executed, requests_received>>
    /\ UNCHANGED <<clientVars, restVars>>

\* result = await self._execute_task(task); self._store_result(result)
LocalExecute(p) ==
    /\ pc[p] = "local_exec"
    /\ StoreInCache(ExecuteTask(cur[p]))
    /\ pc' = [pc EXCEPT ![p] = "local_send"]
    /\ UNCHANGED <<now, registryVars, cur, target, fwd_outcome, task_queue, replies,
                   bg_executed, requests_received, requesters>>
    /\ UNCHANGED <<clientVars, restVars>>

\* await respondent.send(result_data) returns, or raises into the except branch,
\* which stores a FAILURE result and sends that
LocalSend(p, ok) ==
    /\ pc[p] = "local_send"
    /\ IF ok
       THEN /\ replies' = [replies EXCEPT ![p] = Append(@, ExecuteTask(cur[p]))]
            /\ BackToRecv(p)
            /\ UNCHANGED cacheVars
       ELSE /\ StoreInCache(TaskResult(cur[p].id, "failure", "send failed"))
            /\ pc' = [pc EXCEPT ![p] = "error_send"]
            /\ UNCHANGED <<replies, fwd_outcome, cur, target>>
    /\ UNCHANGED <<now, registryVars, task_queue, bg_executed, requests_received,
                   requesters>>
    /\ UNCHANGED <<clientVars, restVars>>

\* await respondent.send(error_data) returns, or raises and is logged
ErrorSend(p, ok) ==
    /\ pc[p] = "error_send"
    /\ IF ok
       THEN /\ replies' = [replies EXCEPT ![p] =
                    Append(@, TaskResult(cur[p].id, "failure", "send failed"))]
       ELSE UNCHANGED replies
    /\ BackToRecv(p)
    /\ UNCHANGED <<cacheVars, now, registryVars, task_queue, bg_executed,
                   requests_received, requesters>>
    /\ UNCHANGED <<clientVars, restVars>>

\* the Tasks clients submit while the loops are observed: task-0 names a callable
\* that returns, task-1 one that raises
DispatchTaskIds == {"task-0", "task-1"}

SubmittedName(id) == IF id = "task-1" THEN "boom" ELSE "add"

\* every step of the priority loop p
PriorityLoopStep(p) ==
    \/ \E id \in DispatchTaskIds, dial_ok \in BOOLEAN :
            ReceiveTask(p, id, SubmittedName(id), dial_ok)
    \/ \E ok \in BOOLEAN, outcome \in ForwardOutcomes : ForwardSend(p, ok, outcome)
    \/ ForwardRecv(p)
    \/ \E ok \in BOOLEAN : ForwardReply(p, ok)
    \/ LocalExecute(p)
    \/ \E ok \in BOOLEAN : LocalSend(p, ok)
    \/ \E ok \in BOOLEAN : ErrorSend(p, ok)

\* one pass of _distribute_queued_tasks: the head of every non-empty deque goes
\* to a background _execute_task, whose TaskResult nobody reads
DistributeQueuedTasks ==
    /\ \E p \in Priorities : task_queue[p] # <<>>
    /\ task_queue' = [p \in Priorities |->
                        IF task_queue[p] # <<>> THEN Tail(task_queue[p]) ELSE <<>>]
    /\ bg_executed' = bg_executed \cup
                        {task_queue[p][1].id : p \in {q \in Priorities : task_queue[q] # <<>>}}
    /\ UNCHANGED <<cacheVars, now, registryVars, pc, cur, target, fwd_outcome,
                   replies, requests_received, requesters>>
    /\ UNCHANGED <<clientVars, restVars>>

InitDispatch == InitFixedCache /\ InitClient(NoArg, DefaultRetries)

NextDispatch ==
    \/ \E p \in Priorities : PriorityLoopStep(p)
    \/ DistributeQueuedTasks
    \/ \E sid \in SubworkerIds, status \in {"active", "inactive"} :
            /\ reg_handled < MaxDispatchRegs
            /\ HandleSubworkerRegistration(sid, "tcp://10.0.0.1:6000", status)

SpecDispatch == InitDispatch /\ [][NextDispatch]_vars

(***************************************************************************)
(* One priority loop together with the registration endpoint and the      *)
(* clock.                                                                  *)
(***************************************************************************)
InitForward == InitFixedCache /\ InitClient(NoArg, DefaultRetries)

NextForward ==
    \/ PriorityLoopStep("normal")
    \/ DistributeQueuedTasks
    \/ \E sid \in SubworkerIds, addr \in Addresses, status \in {"active", "inactive"} :
            /\ reg_handled < MaxDispatchRegs
            /\ HandleSubworkerRegistration(sid, addr, status)
    \/ CacheTick

SpecForward == InitForward /\ [][NextForward]_vars

(***************************************************************************)
(* The client: delay, the submission activities (_submit_task_internal),   *)
(* the discovery listener and the drainer of the pending deque.            *)
(***************************************************************************)
\* Task.id is a fresh uuid4 per Task; the n-th Task created gets the n-th id
NewTaskIds == <<"task-0", "task-1", "task-2">>

PendingResult(id) == TaskResult(id, "pending", None)

\* an activity is one run of _submit_task_internal: created by delay (through
\* _submit_task_internal_with_error_handling) or by the drainer; attempts counts
\* the passes of the retry loop that ended, sleeps the backoff sleeps begun
Activity(task, origin) ==
    [task |-> task, origin |-> origin, pc |-> "start", worker |-> None,
     attempts |-> 0, sleeps |-> 0]

\* a creation that runs the first pass of the retry loop before it returns
SpawnAfterFirstAttempt(acts, task, origin) ==
    Append(acts, [Activity(task, origin) EXCEPT !.pc = "backoff", !.attempts = 1,
                                                !.sleeps = 1])

\* asyncio.create_task(...): the new activity has not run yet
Spawn(acts, task, origin) == Append(acts, Activity(task, origin))

\* Client.start: the bus is opened, running is set, listener and drainer start
ClientStart ==
    /\ discovery_bus = "new"
    /\ discovery_bus' = "open"
    /\ running' = TRUE
    /\ UNCHANGED <<workers, pending_tasks, task_results, retries, retries_arg,
                   activities, next_task, queued, drained>>
    /\ UNCHANGED <<serverVars, restVars>>

\* Client.stop: running is cleared, the drainer is cancelled, the bus is closed;
\* submission activities are not cancelled
ClientStop ==
    /\ discovery_bus = "open"
    /\ discovery_bus' = "closed"
    /\ running' = FALSE
    /\ UNCHANGED <<workers, pending_tasks, task_results, retries, retries_arg,
                   activities, next_task, queued, drained>>
    /\ UNCHANGED <<serverVars, restVars>>

\* a discovery message is a sequence of the segments between its colons;
\* message.split(":", 2) keeps the first two and joins the rest
Split2(msg) ==
    IF Len(msg) >= 3 THEN <<msg[1], msg[2], SubSeq(msg, 3, Len(msg))>> ELSE msg

\* message.startswith("WORKER_ANNOUNCE:")
IsAnnounce(msg) == Len(msg) >= 2 /\ msg[1] = "WORKER_ANNOUNCE"

DiscoveryMessages ==
    { <<"WORKER_ANNOUNCE", "w1", "tcp", "//10.0.0.1", "5555">>,
      <<"WORKER_ANNOUNCE", "w2", "tcp", "//10.0.0.2", "5555">>,
      <<"WORKER_ANNOUNCE", "w1">>,
      <<"HELLO", "w1", "tcp", "//10.0.0.1", "5555">> }

\* a listener that keeps only the worker announced last
ListenForWorkersKeepsLatest(msg) ==
    /\ running
    /\ discovery_bus = "open"
    /\ workers' = IF IsAnnounce(msg) /\ Len(Split2(msg)) >= 3
                  THEN {<<Split2(msg)[2], Split2(msg)[3]>>}
                  ELSE workers
    /\ UNCHANGED <<running, discovery_bus, pending_tasks, task_results, retries,
                   retries_arg, activities, next_task, queued, drained>>
    /\ UNCHANGED <<serverVars, restVars>>
\* one pass of _listen_for_workers: discovery_bus.recv() returned msg
ListenForWorkers(msg) ==
    /\ running
    /\ discovery_bus = "open"
    /\ workers' = IF IsAnnounce(msg) /\ Len(Split2(msg)) >= 3
                  THEN workers \cup {<<Split2(msg)[2], Split2(msg)[3]>>}
                  ELSE workers
    /\ UNCHANGED <<running, discovery_bus, pending_tasks, task_results, retries,
                   retries_arg, activities, next_task, queued, drained>>
    /\ UNCHANGED <<serverVars, restVars>>

\* Client.delay: build the Task, write the PENDING result, create the submission
\* activity and return the id; no await on the way
Delay(name, priority) ==
    LET id == NewTaskIds[next_task + 1]
        task == Task(id, name, priority)
    IN  /\ next_task < MaxDelays
        /\ next_task' = next_task + 1
        /\ task_results' = [task_results EXCEPT ![id] = PendingResult(id)]
        /\ activities' = Spawn(activities, task, "delay")
        /\ UNCHANGED <<running, discovery_bus, workers, pending_tasks, retries,
                       retries_arg, queued, drained>>
        /\ UNCHANGED <<serverVars, restVars>>

\* the first stretch of _submit_task_internal: with no known worker the Task is
\* appended to the pending deque and a PENDING result is written; otherwise a
\* worker is taken from the set and the retry loop is entered
SubmitStart(a) ==
    /\ a \in 1..Len(activities)
    /\ activities[a].pc = "start"
    /\ IF workers = {}
       THEN /\ pending_tasks' = Append(pending_tasks, activities[a].task)
            /\ queued' = Append(queued, activities[a].task.id)
            /\ task_results' = [task_results EXCEPT ![activities[a].task.id] =
                                    PendingResult(activities[a].task.id)]
            /\ activities' = [activities EXCEPT ![a].pc = "done"]
       ELSE /\ \E w \in workers :
                activities' = [activities EXCEPT ![a].pc = "attempt",
                                                 ![a].worker = w[1]]
            /\ UNCHANGED <<pending_tasks, queued, task_results>>
    /\ UNCHANGED <<running, discovery_bus, workers, retries, retries_arg,
                   next_task, drained>>
    /\ UNCHANGED <<serverVars, restVars>>

\* a retry loop with one pass too many
MayRetryOnceMore(attempt, r) == attempt <= r

\* if attempt < self.retries
MayRetry(attempt, r) == attempt < r

AttemptOutcomes == {"reply", "timeout", "exception"}

\* a retry loop that goes on to its backoff after a reply
AfterReplyGoesOn(act) ==
    [act EXCEPT !.pc = "backoff", !.attempts = @ + 1, !.sleeps = @ + 1]

\* self.task_results[task.id] = result; return result: the activity is over
AfterReply(act) ==
    [act EXCEPT !.pc = "done", !.worker = None, !.attempts = @ + 1]

\* one pass of the retry loop: dial, send and the wait for the reply under
\* wait_for(timeout); no client state is written before the pass ends.  A reply
\* is written to the result map and ends the activity; a timeout or an exception
\* begins a backoff sleep when attempts are left and writes FAILURE otherwise
SubmitAttempt(a, outcome) ==
    /\ a \in 1..Len(activities)
    /\ activities[a].pc = "attempt"
    /\ LET act == activities[a]
           id == act.task.id
       IN  IF outcome = "reply"
           THEN /\ task_results' = [task_results EXCEPT ![id] = ExecuteTask(act.task)]
                /\ activities' = [activities EXCEPT ![a] = AfterReply(act)]
           ELSE IF MayRetry(act.attempts, retries)
           THEN /\ activities' = [activities EXCEPT ![a].pc = "backoff",
                                                    ![a].attempts = @ + 1,
                                                    ![a].sleeps = @ + 1]
                /\ UNCHANGED task_results
           ELSE /\ task_results' = [task_results EXCEPT ![id] =
                                        TaskResult(id, "failure", outcome)]
                /\ activities' = [activities EXCEPT ![a].pc = "done",
                                                    ![a].worker = None,
                                                    ![a].attempts = @ + 1]
    /\ UNCHANGED <<running, discovery_bus, workers, pending_tasks, retries,
                   retries_arg, next_task, queued, drained>>
    /\ UNCHANGED <<serverVars, restVars>>

\* asyncio.sleep(0.1 * 2 ** attempt) is over: the loop goes to its next pass
BackoffOver(a) ==
    /\ a \in 1..Len(activities)
    /\ activities[a].pc = "backoff"
    /\ activities' = [activities EXCEPT ![a].pc = "attempt"]
    /\ UNCHANGED <<running, discovery_bus, workers, pending_tasks, task_results,
                   retries, retries_arg, next_task, queued, drained>>
    /\ UNCHANGED <<serverVars, restVars>>

\* a drainer that takes the newest Task first (pop instead of popleft)
DrainOrderNewestFirst(pending) ==
    [i \in 1..Len(pending) |-> pending[Len(pending) + 1 - i]]

\* the order in which the drainer takes Tasks from the deque: popleft
DrainOrder(pending) == pending

RECURSIVE SpawnAll(_, _)
SpawnAll(acts, tasks) ==
    IF tasks = <<>> THEN acts
    ELSE SpawnAll(Spawn(acts, Head(tasks), "drainer"), Tail(tasks))

\* _process_pending_tasks between two sleeps: while workers are known and the
\* deque is not empty it pops a Task and creates an activity for it; that branch
\* of the loop has no await, so the deque is emptied before anything else runs
ProcessPendingTasks ==
    /\ running
    /\ workers # {}
    /\ pending_tasks # <<>>
    /\ pending_tasks' = <<>>
    /\ activities' = SpawnAll(activities, DrainOrder(pending_tasks))
    /\ drained' = drained \o [i \in 1..Len(pending_tasks) |->
                                DrainOrder(pending_tasks)[i].id]
    /\ UNCHANGED <<running, discovery_bus, workers, task_results, retries,
                   retries_arg, next_task, queued>>
    /\ UNCHANGED <<serverVars, restVars>>

\* the clients observed: every retries argument, and an environment that sets
\* FASTQUEUE_RETRIES to 0 or leaves the largest value
InitClientSpec ==
    /\ InitFixedCache
    /\ \E arg \in {NoArg} \cup 0..MaxRetries, env \in {0, MaxRetries} :
            InitClient(arg, env)

NextClient ==
    \/ ClientStart
    \/ ClientStop
    \/ \E msg \in DiscoveryMessages : ListenForWorkers(msg)
    \/ /\ next_task < MaxDelays
       /\ Delay(SubmittedName(NewTaskIds[next_task + 1]), "normal")
    \/ \E a \in 1..Len(activities) : SubmitStart(a)
    \/ \E a \in 1..Len(activities), outcome \in AttemptOutcomes : SubmitAttempt(a, outcome)
    \/ \E a \in 1..Len(activities) : BackoffOver(a)
    \/ ProcessPendingTasks

SpecClient == InitClientSpec /\ [][NextClient]_vars

\* the drainer is a task of the event loop that wakes every 0.1 s while the
\* client runs: it is not postponed forever
FairSpecClient == SpecClient /\ WF_vars(ProcessPendingTasks)

(***************************************************************************)
(* The result-query endpoint (_handle_result_queries) and                  *)
(* Client.get_task_result.                                                 *)
(***************************************************************************)
\* query.get("task_id") of the queries received: an id, the field left out, or
\* an empty string
NoTaskIdField == {None, ""}

\* a handler that reports every id as not found
ResponseToNeverFound(cache, task_id, t, ttl) ==
    IF task_id \in NoTaskIdField
    THEN QueryResponse(None, NoResult, "Missing task_id")
    ELSE QueryResponse("false", NoResult, "not found in cache or expired")

\* the response the handler builds for a query
ResponseTo(cache, task_id, t, ttl) ==
    IF task_id \in NoTaskIdField
    THEN QueryResponse(None, NoResult, "Missing task_id")
    ELSE IF GetResultValue(cache, task_id, t, ttl) # NoResult
    THEN QueryResponse("true", GetResultValue(cache, task_id, t, ttl), None)
    ELSE QueryResponse("false", NoResult, "not found in cache or expired")

\* one pass of _handle_result_queries for a received query: the early response
\* for a missing task_id, or _get_result and the response built from it
AnswerQuery(task_id) ==
    /\ queries_received < MaxQueries
    /\ queries_received' = queries_received + 1
    /\ query_responses' = query_responses + 1
    /\ query_response' = ResponseTo(result_cache, task_id, now, result_cache_ttl_seconds)
    /\ IF task_id \in NoTaskIdField
       THEN UNCHANGED <<result_cache, touched>>
       ELSE /\ result_cache' = GetResultCache(result_cache, task_id, now,
                                              result_cache_ttl_seconds)
            /\ touched' = IF GetResultValue(result_cache, task_id, now,
                                            result_cache_ttl_seconds) # NoResult
                          THEN Touch(touched, task_id) ELSE touched
    /\ UNCHANGED <<result_cache_max_size, result_cache_ttl_seconds, get_returned,
                   now, registryVars, loopVars, clientVars, execVars, peerVars, moreVars>>

\* a query sent by some other client
HandleResultQuery(task_id) ==
    /\ AnswerQuery(task_id)
    /\ UNCHANGED get_task_result_returned

\* response.get('found') and TaskResult(**response['result'])
ResultFromResponse(response) ==
    IF response.found = "true" THEN response.result ELSE NoResult

\* Client.get_task_result: none without a known worker; otherwise the query is
\* sent to the control plane, which answers it, and the response is read
GetTaskResult(task_id) ==
    IF workers = {}
    THEN /\ get_task_result_returned' = [task_id |-> task_id, value |-> NoResult]
         /\ UNCHANGED <<serverVars, clientVars, execVars, peerVars, moreVars, queries_received,
                        query_responses, query_response>>
    ELSE /\ AnswerQuery(task_id)
         /\ get_task_result_returned' =
                [task_id |-> task_id, value |-> ResultFromResponse(query_response')]

QueryTaskIds == {"task-0", "task-1"}

InitQuery == InitFixedCache /\ InitClient(NoArg, DefaultRetries)

NextQuery ==
    \/ \E k \in QueryTaskIds : StoreResult(TaskResult(k, "success", None))
    \/ CacheTick
    \/ \E q \in QueryTaskIds \cup NoTaskIdField : HandleResultQuery(q)
    \/ \E k \in QueryTaskIds : GetTaskResult(k)
    \/ ClientStart
    \/ ListenForWorkers(<<"WORKER_ANNOUNCE", "w1", "tcp", "//10.0.0.1", "5555">>)

SpecQuery == InitQuery /\ [][NextQuery]_vars

(***************************************************************************)
(* The peer listener of a worker (Worker._listen_for_peers) next to the    *)
(* client's listener on the same discovery bus.                            *)
(***************************************************************************)
\* message.split(":"): every segment between colons
SplitAll(msg) == msg

\* one pass of _listen_for_peers: discovery_bus.recv() returned msg; the peer's
\* address is parts[2], one segment
ListenForPeers(msg) ==
    /\ peers' = IF IsAnnounce(msg) /\ Len(SplitAll(msg)) >= 3
                THEN peers \cup {<<SplitAll(msg)[2], <<SplitAll(msg)[3]>>>>}
                ELSE peers
    /\ UNCHANGED <<serverVars, clientVars, execVars, queryVars, moreVars>>

\* what workers announce (f"WORKER_ANNOUNCE:{worker_id}:{base_address}") and
\* what else arrives on the bus
BusMessages ==
    DiscoveryMessages \cup
    { <<"WORKER_ANNOUNCE", "w3", "tcp", "//10.0.0.3", "5555">>,
      <<"WORKER_ANNOUNCE", "w1", "ipc", "///tmp/w1">> }

InitDiscovery == InitFixedCache /\ InitClient(NoArg, DefaultRetries)

NextDiscovery ==
    \/ ClientStart
    \/ ClientStop
    \/ \E msg \in BusMessages : ListenForWorkers(msg)
    \/ \E msg \in BusMessages : ListenForPeers(msg)

SpecDiscovery == InitDiscovery /\ [][NextDiscovery]_vars

(***************************************************************************)
(* A client and the worker that executes what it sends.                    *)
(***************************************************************************)
\* some activity of the client is in an attempt for the Task with this id
Attempting(id) ==
    \E a \in 1..Len(activities) :
        activities[a].pc = "attempt" /\ activities[a].task.id = id

InitLifecycle == InitFixedCache /\ InitClient(1, DefaultRetries)

NextLifecycle ==
    \/ NextClient
    \/ \E id \in DispatchTaskIds :
            Attempting(id) /\ WorkerReceiveTask(id, SubmittedName(id))
    \/ ExecuteStart
    \/ ExecuteFinish

SpecLifecycle == InitLifecycle /\ [][NextLifecycle]_vars

(***************************************************************************)
(* The subworker's side of registration: SubWorker.start,                  *)
(* _register_with_control_plane and _periodic_reregistration.              *)
(***************************************************************************)
MaxTicks == 3           \* heartbeat ticks in one run

\* what the endpoint the subworker dials does with a message it is sent: the
\* control plane's registration loop answers {status: registered}; a silent
\* endpoint answers nothing; a refusing one breaks the connection or answers with
\* another status
EndpointStates == {"answering", "silent", "refusing"}

\* how a wait for the ack can end
AckOutcomes(e) ==
    IF e = "answering" THEN {"registered"}
    ELSE IF e = "silent" THEN {"timeout"}
    ELSE {"other", "error"}

\* ack.get("status") of the ack a wait returned; None when it timed out or raised
AckStatus(outcome) == IF outcome \in {"registered", "other"} THEN outcome ELSE None

\* the loop's next pass: while self.running, then asyncio.sleep(10.0)
NextPass(run) == IF run THEN "sleep" ELSE "done"

\* a loop that sends a heartbeat on every tick, registered or not
AfterSleepAlwaysHeartbeat(reg) == "hb_send"

\* if not self.registered: full registration, else: heartbeat
AfterSleep(reg) == IF reg THEN "hb_send" ELSE "reg_send"

\* self.registered after the wait of _register_with_control_plane ended
RegisteredAfterRegistration(reg, outcome) ==
    IF outcome = "registered" THEN TRUE
    ELSE IF outcome = "other" THEN reg
    ELSE FALSE

\* self.registered after the heartbeat's wait ended: a timeout is passed over, an
\* ack with another status or an exception clears the flag
RegisteredAfterHeartbeat(reg, outcome) ==
    IF outcome \in {"registered", "timeout"} THEN reg ELSE FALSE

\* SubWorker.start up to the first registration's send
\* the wait on the socket is over: an ack that arrived answers the message; after
\* a timeout or an error the message is still unanswered
UnansweredAfterWait(u, outcome) ==
    IF outcome \in {"registered", "other"} THEN FALSE ELSE u

SubStart ==
    /\ sub_pc = "new"
    /\ sub_running' = TRUE
    /\ sub_pc' = "reg_send"
    /\ UNCHANGED <<registered, sub_loop, last_ack, endpoint, ticks, unanswered>>
    /\ UNCHANGED <<serverVars, clientVars, execVars, queryVars, peerVars, shutVars, portVars,
                   engineVars>>

\* _register_with_control_plane is over: start creates the loop after the first
\* one, the loop goes to its next pass after the others
RegistrationOver ==
    /\ sub_loop' = TRUE
    /\ sub_pc' = NextPass(sub_running)

\* control_plane_registry.start() and send(registration_data) return, or raise
RegisterSend(ok) ==
    /\ sub_pc = "reg_send"
    /\ endpoint = "answering" => ok
    /\ IF ok
       THEN \* a new Req0 socket, and one message sent on it
            /\ sub_pc' = "reg_wait"
            /\ unanswered' = TRUE
            /\ UNCHANGED <<registered, sub_loop, last_ack>>
       ELSE \* the dial raised and the old socket is kept, or the send raised on
            \* the new one
            /\ registered' = FALSE
            /\ last_ack' = None
            /\ unanswered' \in {unanswered, FALSE}
            /\ RegistrationOver
    /\ UNCHANGED <<sub_running, endpoint, ticks>>
    /\ UNCHANGED <<serverVars, clientVars, execVars, queryVars, peerVars, shutVars, portVars,
                   engineVars>>

\* asyncio.wait_for(control_plane_registry.recv(), timeout=5.0) is over
RegisterAck(outcome) ==
    /\ sub_pc = "reg_wait"
    /\ outcome \in AckOutcomes(endpoint)
    /\ registered' = RegisteredAfterRegistration(registered, outcome)
    /\ last_ack' = AckStatus(outcome)
    /\ unanswered' = UnansweredAfterWait(unanswered, outcome)
    /\ RegistrationOver
    /\ UNCHANGED <<sub_running, endpoint, ticks>>
    /\ UNCHANGED <<serverVars, clientVars, execVars, queryVars, peerVars, shutVars, portVars,
                   engineVars>>

\* asyncio.sleep(10.0) of _periodic_reregistration ends
SleepOver ==
    /\ sub_pc = "sleep"
    /\ ticks < MaxTicks
    /\ ticks' = ticks + 1
    /\ sub_pc' = AfterSleep(registered)
    /\ UNCHANGED <<registered, sub_running, sub_loop, last_ack, endpoint, unanswered>>
    /\ UNCHANGED <<serverVars, clientVars, execVars, queryVars, peerVars, shutVars, portVars,
                   engineVars>>

\* control_plane_registry.send(update_data) returns, or raises; after stop the
\* socket is closed and the send raises
HeartbeatSend(ok) ==
    /\ sub_pc = "hb_send"
    /\ endpoint = "answering" /\ sub_running => ok
    /\ ok => sub_running
    /\ IF ok
       THEN /\ sub_pc' = "hb_wait"
            /\ unanswered' = TRUE
            /\ UNCHANGED <<registered, last_ack>>
       ELSE /\ registered' = FALSE
            /\ last_ack' = None
            /\ sub_pc' = NextPass(sub_running)
            /\ UNCHANGED unanswered
    /\ UNCHANGED <<sub_running, sub_loop, endpoint, ticks>>
    /\ UNCHANGED <<serverVars, clientVars, execVars, queryVars, peerVars, shutVars, portVars,
                   engineVars>>

\* asyncio.wait_for(control_plane_registry.recv(), timeout=1.0) is over
HeartbeatAck(outcome) ==
    /\ sub_pc = "hb_wait"
    /\ outcome \in AckOutcomes(endpoint)
    /\ registered' = RegisteredAfterHeartbeat(registered, outcome)
    /\ last_ack' = AckStatus(outcome)
    /\ unanswered' = UnansweredAfterWait(unanswered, outcome)
    /\ sub_pc' = NextPass(sub_running)
    /\ UNCHANGED <<sub_running, sub_loop, endpoint, ticks>>
    /\ UNCHANGED <<serverVars, clientVars, execVars, queryVars, peerVars, shutVars, portVars,
                   engineVars>>

\* SubWorker.stop, called by start after the shutdown event: running is cleared
\* and the sockets are closed
SubStop ==
    /\ sub_loop
    /\ sub_running
    /\ sub_running' = FALSE
    /\ UNCHANGED <<registered, sub_pc, sub_loop, last_ack, endpoint, ticks,
                   unanswered>>
    /\ UNCHANGED <<serverVars, clientVars, execVars, queryVars, peerVars, shutVars, portVars,
                   engineVars>>

\* the endpoint changes its behaviour
EndpointChange(e) ==
    /\ e # endpoint
    /\ endpoint' = e
    /\ UNCHANGED <<registered, sub_running, sub_pc, sub_loop, last_ack, ticks,
                   unanswered>>
    /\ UNCHANGED <<serverVars, clientVars, execVars, queryVars, peerVars, shutVars, portVars,
                   engineVars>>

\* every step of the subworker's own code
SubworkerStep ==
    \/ SubStart
    \/ \E ok \in BOOLEAN : RegisterSend(ok)
    \/ \E outcome \in {"registered", "other", "timeout", "error"} : RegisterAck(outcome)
    \/ SleepOver
    \/ \E ok \in BOOLEAN : HeartbeatSend(ok)
    \/ \E outcome \in {"registered", "other", "timeout", "error"} : HeartbeatAck(outcome)

InitSubworker ==
    /\ InitFixedCache
    /\ InitClient(NoArg, DefaultRetries)

NextSubworker ==
    \/ SubworkerStep
    \/ SubStop
    \/ \E e \in EndpointStates : EndpointChange(e)

SpecSubworker == InitSubworker /\ [][NextSubworker]_vars

\* the timers of the event loop fire and every wait of the subworker is bounded
\* (5 s, 1 s, 10 s), so a step of the subworker that can be taken is taken
FairSpecSubworker == SpecSubworker /\ WF_vars(SubworkerStep)

(***************************************************************************)
(* Start and shutdown of the control plane: ControlPlaneWorker.start,      *)
(* _signal_handler, ControlPlaneWorker.stop and Worker.stop.               *)
(***************************************************************************)
\* the loops start keeps in its list `tasks` and cancels
CancelledLoops == Priorities \cup {"distributor", "monitor", "sweeper"}

\* the loops start creates and forgets: they end by their own loop condition
ForgottenLoops == {"registrations", "queries", "announcer", "peers"}

Loops == CancelledLoops \cup ForgottenLoops

\* the sockets the control plane listens on, all closed by stop
ListeningSockets == {"critical", "high", "normal", "low", "result_query",
                     "registry", "discovery_bus"}

\* the priority loop p holds a requester it dialed to a subworker and has not
\* closed: from requester.start() to the inner except's requester.close()
OutboundOpen(p) == pc[p] \in {"fwd_send", "fwd_recv", "fwd_reply"}

\* start, up to await self.shutdown_event.wait(): the sockets are opened, the
\* loops are created, running is set
ControlPlaneStart ==
    /\ cp_pc = "new"
    /\ cp_pc' = "wait"
    /\ cp_running' = TRUE
    /\ sockets' = [k \in ListeningSockets |-> "open"]
    /\ loop_state' = [l \in Loops |-> "running"]
    /\ UNCHANGED shutdown_event
    /\ UNCHANGED <<serverVars, clientVars, execVars, queryVars, peerVars, subVars, portVars,
                   engineVars>>

\* _signal_handler: self.shutdown_event.set()
SignalHandler ==
    /\ cp_pc = "wait"
    /\ ~shutdown_event
    /\ shutdown_event' = TRUE
    /\ UNCHANGED <<cp_pc, cp_running, loop_state, sockets>>
    /\ UNCHANGED <<serverVars, clientVars, execVars, queryVars, peerVars, subVars, portVars,
                   engineVars>>

\* start resumes from the wait: task.cancel() for every task of the list, then
\* stop(): running is cleared and the seven listening sockets are closed
StopControlPlane ==
    /\ cp_pc = "wait"
    /\ shutdown_event
    /\ cp_pc' = "stopped"
    /\ cp_running' = FALSE
    /\ loop_state' = [l \in Loops |->
                        IF l \in CancelledLoops /\ loop_state[l] = "running"
                        THEN "cancelled" ELSE loop_state[l]]
    /\ sockets' = [k \in ListeningSockets |-> "closed"]
    /\ UNCHANGED shutdown_event
    /\ UNCHANGED <<serverVars, clientVars, execVars, queryVars, peerVars, subVars, portVars,
                   engineVars>>

\* the order of the list `tasks`: cancel() is called in this order and the event
\* loop resumes the cancelled activities in the order they were scheduled
CancelOrder == <<"critical", "high", "normal", "low", "distributor", "monitor",
                 "sweeper">>

\* the CancelledError is raised at the await the loop stands at; it is not an
\* Exception, so no except branch of the loop runs and the activity ends there
LoopCancelled(i) ==
    /\ loop_state[CancelOrder[i]] = "cancelled"
    /\ \A j \in 1..(i - 1) : loop_state[CancelOrder[j]] # "cancelled"
    /\ loop_state' = [loop_state EXCEPT ![CancelOrder[i]] = "ended"]
    /\ UNCHANGED <<cp_pc, cp_running, shutdown_event, sockets>>
    /\ UNCHANGED <<serverVars, clientVars, execVars, queryVars, peerVars, subVars, portVars,
                   engineVars>>

\* the condition a loop tests before each pass
LoopCondition(l) ==
    IF l \in Priorities \cup {"announcer"}
    THEN cp_running /\ ~shutdown_event
    ELSE cp_running

\* a loop is at the head of a pass and its condition is false: it returns. A
\* forgotten loop gets there when its recv raises on the closed socket or its
\* sleep ends; a priority loop when a round is over
LoopReturns(l) ==
    /\ loop_state[l] = "running"
    /\ ~LoopCondition(l)
    /\ l \in Priorities => pc[l] = "recv"
    /\ loop_state' = [loop_state EXCEPT ![l] = "ended"]
    /\ UNCHANGED <<cp_pc, cp_running, shutdown_event, sockets>>
    /\ UNCHANGED <<serverVars, clientVars, execVars, queryVars, peerVars, subVars, portVars,
                   engineVars>>

\* a step of a priority loop that is alive
LiveLoopStep(p) ==
    /\ loop_state[p] = "running"
    /\ PriorityLoopStep(p)

\* a message handled by the registration loop while it is alive
LiveRegistration(sid) ==
    /\ loop_state["registrations"] = "running"
    /\ sockets["registry"] = "open"
    /\ reg_handled < MaxDispatchRegs
    /\ HandleSubworkerRegistration(sid, "tcp://10.0.0.1:6000", "active")

\* what the shutdown itself does; of the priority loops only the one that
\* handles requests can be at the head of a pass, the others wait in recv
ShutdownStep ==
    \/ StopControlPlane
    \/ \E i \in 1..Len(CancelOrder) : LoopCancelled(i)
    \/ \E l \in ForgottenLoops \cup {"normal"} : LoopReturns(l)

InitShutdown == InitFixedCache /\ InitClient(NoArg, DefaultRetries)

NextShutdown ==
    \/ ControlPlaneStart
    \/ SignalHandler
    \/ ShutdownStep
    \/ LiveLoopStep("normal")
    \/ \E sid \in SubworkerIds : LiveRegistration(sid)

SpecShutdown == InitShutdown /\ [][NextShutdown]_vars

\* start resumes once the event is set, a cancelled activity is resumed with its
\* CancelledError, and a closed socket or an ended sleep wakes the loop on it
FairSpecShutdown == SpecShutdown /\ WF_vars(ShutdownStep)

(***************************************************************************)
(* The port of the registration channel: ControlPlaneWorker.__init__ and   *)
(* SubWorker.__init__.                                                     *)
(***************************************************************************)
DefaultBasePort == 5555          \* parsed.port or 5555
DefaultManagementPort == 5560    \* os.getenv("FASTWORKER_SUBWORKER_PORT", "5560")
ManagementOffset == 5            \* management_port = base_port_cp + 5

\* urlparse(address).port of an address that names no port
NoPort == 0

\* the ports of the base addresses tried
BasePorts == {NoPort, 5555, 5556, 6000, 7000}

\* the values of the subworker_management_port argument and of the environment
\* variable tried
ManagementPortArgs == {NoArg, 0, 5560, 6005, 7005}
ManagementPortEnvs == {5560, 5561, 6005}

\* parsed.port or 5555
BasePort(port) == IF port = NoPort THEN DefaultBasePort ELSE port

\* subworker_management_port or int(os.getenv("FASTWORKER_SUBWORKER_PORT", "5560"))
SubworkerManagementPort(arg, env) == IF arg = NoArg \/ arg = 0 THEN env ELSE arg

\* management_port = base_port_cp + 5
ManagementPort(port) == BasePort(port) + ManagementOffset

\* ControlPlaneWorker.__init__ for a base address with this port, this argument
\* and this environment
ControlPlaneInit(port, arg, env) ==
    /\ cp_base_port' = port
    /\ registry_port' = SubworkerManagementPort(arg, env)
    /\ UNCHANGED <<sub_cp_port, management_port>>
    /\ UNCHANGED <<serverVars, clientVars, execVars, queryVars, peerVars, subVars,
                   shutVars, engineVars>>

\* SubWorker.__init__ for a control-plane address with this port
SubWorkerInit(port) ==
    /\ sub_cp_port' = port
    /\ management_port' = ManagementPort(port)
    /\ UNCHANGED <<cp_base_port, registry_port>>
    /\ UNCHANGED <<serverVars, clientVars, execVars, queryVars, peerVars, subVars,
                   shutVars, engineVars>>

InitPorts == InitFixedCache /\ InitClient(NoArg, DefaultRetries)

NextPorts ==
    \/ \E port \in BasePorts, arg \in ManagementPortArgs, env \in ManagementPortEnvs :
            ControlPlaneInit(port, arg, env)
    \/ \E port \in BasePorts : SubWorkerInit(port)

SpecPorts == InitPorts /\ [][NextPorts]_vars

(***************************************************************************)
(* The registry under load: the registration handler, the liveness monitor *)
(* and the clock, next to one priority loop that forwards.                 *)
(***************************************************************************)
MaxReviveRequests == 1  \* requests the loop receives while the registry ages

InitRevive == InitFixedCache /\ InitClient(NoArg, DefaultRetries)

NextRevive ==
    \/ /\ pc["normal"] = "recv" => requests_received < MaxReviveRequests
       /\ PriorityLoopStep("normal")
    \/ DistributeQueuedTasks
    \/ \E sid \in SubworkerIds :
            HandleSubworkerRegistration(sid, "tcp://10.0.0.1:6000", "active")
    \/ MonitorSubworkers
    \/ RegistryTick

SpecRevive == InitRevive /\ [][NextRevive]_vars

(***************************************************************************)
(* One priority endpoint of a Worker: _process_tasks, _execute_task and    *)
(* _send_callback (fastworker/workers/worker.py)                           *)
(***************************************************************************)
MaxEngineRequests == 2

\* ids of the Tasks the endpoint receives, in order of arrival
EngineTaskIds == <<"task-0", "task-1", "task-2", "task-3">>

\* if task.callback:
CallbackWanted(task) == task.callback

\* the payload _send_callback serializes: the TaskResult's fields and the
\* callback's opaque data
CallbackPayload(result) ==
    [task_id |-> result.task_id, status |-> result.status, error |-> result.error,
     callback_data |-> "data"]

\* an engine that turns a failed callback into a FAILURE result
ResultAfterCallbackFails(result, ok) ==
    IF ok THEN result ELSE TaskResult(result.task_id, "failure", "callback failed")

\* _send_callback catches and logs whatever the dial or the send raises;
\* _execute_task then returns the task_result it had built
ResultAfterCallback(result, ok) == result

\* an endpoint that answers only for callables that returned
HandToSendOnlySuccess(sends, result, ok) ==
    IF result.status = "failure" THEN sends
    ELSE Append(sends, [result |-> result, delivered |-> ok])

\* result_data = serialize(result.dict()); await respondent.send(result_data)
HandToSend(sends, result, ok) ==
    Append(sends, [result |-> result, delivered |-> ok])

\* data = await respondent.recv(); deserialize; Task(**task_data).  A message
\* that is no Task raises into the except branch of the loop, which logs it and
\* goes back to recv
WkReceive(name, cb, wellformed) ==
    /\ wk_pc = "recv"
    /\ wk_received + wk_malformed < MaxEngineRequests
    /\ IF wellformed
       THEN /\ wk_task' = [id |-> EngineTaskIds[wk_received + 1], name |-> name,
                           callback |-> cb]
            /\ wk_received' = wk_received + 1
            /\ wk_result' = NoResult
            /\ cb_calls' = 0
            /\ pair_sockets' = 0
            /\ wk_pc' = "call"
            /\ UNCHANGED wk_malformed
       ELSE /\ wk_malformed' = wk_malformed + 1
            /\ UNCHANGED <<wk_task, wk_received, wk_result, cb_calls, pair_sockets,
                           wk_pc>>
    /\ UNCHANGED <<wk_sends, pair_open, callbacks>>
    /\ UNCHANGED <<serverVars, clientVars, execVars, queryVars, peerVars, subVars,
                   shutVars, portVars>>

\* the lookup and the call are over: the TaskResult is built; with a callback
\* descriptor _send_callback is called, creates the PairPattern and dials
\* (pynng.Pair0(dial=...)), which raises or leaves an open socket
WkExecute(dial_ok) ==
    /\ wk_pc = "call"
    /\ IF ~CallbackWanted(wk_task)
       THEN /\ dial_ok
            /\ wk_result' = ExecuteTask(wk_task)
            /\ wk_pc' = "reply"
            /\ UNCHANGED <<cb_calls, pair_sockets, pair_open>>
       ELSE /\ cb_calls' = cb_calls + 1
            /\ wk_result' = ResultAfterCallback(ExecuteTask(wk_task), dial_ok)
            /\ IF dial_ok
               THEN /\ pair_sockets' = pair_sockets + 1
                    /\ pair_open' = pair_open + 1
                    /\ wk_pc' = "cb_send"
               ELSE /\ wk_pc' = "reply"
                    /\ UNCHANGED <<pair_sockets, pair_open>>
    /\ UNCHANGED <<wk_task, wk_received, wk_malformed, wk_sends, callbacks>>
    /\ UNCHANGED <<serverVars, clientVars, execVars, queryVars, peerVars, subVars,
                   shutVars, portVars>>

\* await callback_socket.send(serialized_data) returns or raises; the finally
\* closes the socket, the except logs, and _execute_task returns
WkCallbackSend(ok) ==
    /\ wk_pc = "cb_send"
    /\ callbacks' = IF ok THEN Append(callbacks, CallbackPayload(wk_result))
                    ELSE callbacks
    /\ pair_open' = pair_open - 1
    /\ wk_result' = ResultAfterCallback(wk_result, ok)
    /\ wk_pc' = "reply"
    /\ UNCHANGED <<wk_task, wk_received, wk_malformed, wk_sends, cb_calls,
                   pair_sockets>>
    /\ UNCHANGED <<serverVars, clientVars, execVars, queryVars, peerVars, subVars,
                   shutVars, portVars>>

\* await respondent.send(result_data) returns, or raises and is logged; the loop
\* is back at recv
WkReply(ok) ==
    /\ wk_pc = "reply"
    /\ wk_sends' = HandToSend(wk_sends, wk_result, ok)
    /\ wk_pc' = "recv"
    /\ UNCHANGED <<wk_task, wk_result, wk_received, wk_malformed, cb_calls,
                   pair_sockets, pair_open, callbacks>>
    /\ UNCHANGED <<serverVars, clientVars, execVars, queryVars, peerVars, subVars,
                   shutVars, portVars>>

\* the steps of a round after the request was received
WkRoundStep ==
    \/ \E dial_ok \in BOOLEAN : WkExecute(dial_ok)
    \/ \E ok \in BOOLEAN : WkCallbackSend(ok)
    \/ \E ok \in BOOLEAN : WkReply(ok)

InitEngine == InitFixedCache /\ InitClient(NoArg, DefaultRetries)

NextEngine ==
    \/ \E name \in TaskNames, cb \in BOOLEAN, wellformed \in BOOLEAN :
            WkReceive(name, cb, wellformed)
    \/ WkRoundStep

SpecEngine == InitEngine /\ [][NextEngine]_vars

\* the callable returns or raises and each awaited send returns or raises: a
\* round that has begun goes on
FairSpecEngine == SpecEngine /\ WF_vars(WkRoundStep)

(***************************************************************************)
(* ControlPlaneWorker.start step by step: the activities it creates and    *)
(* the first step each of them takes                                       *)
(***************************************************************************)
\* the order in which start calls asyncio.create_task; the event loop gives the
\* created activities their first step in this order
StartOrder == <<"announcer", "registrations", "queries", "peers",
                "critical", "high", "normal", "low",
                "distributor", "monitor", "sweeper">>

\* a respondent whose start gives the event loop a turn
RespondentStartYieldsAlways == TRUE

\* ReqRepPattern.start creates the socket and returns: there is no await in it,
\* so `await respondent.start()` does not give the event loop a turn
RespondentStartYields == FALSE

\* start has given the event loop a turn since it created its first activities
StartYielded ==
    \/ cp_pc \in {"wait", "stopped"}
    \/ cp_pc = "respondents" /\ RespondentStartYields

\* start up to the last create_task before the respondents: the registry, the
\* result-query server and the discovery bus are open, and the announcer, the
\* registration, result-query and peer loops are created
StartSpawn ==
    /\ cp_pc = "new"
    /\ cp_pc' = "respondents"
    /\ sockets' = [k \in ListeningSockets |->
                    IF k \in {"registry", "result_query", "discovery_bus"}
                    THEN "open" ELSE sockets[k]]
    /\ loop_state' = [l \in Loops |->
                        IF l \in ForgottenLoops THEN "created" ELSE loop_state[l]]
    /\ UNCHANGED <<cp_running, shutdown_event>>
    /\ UNCHANGED <<serverVars, clientVars, execVars, queryVars, peerVars, subVars, portVars,
                   engineVars>>

\* start from the respondents to await self.shutdown_event.wait(): the four
\* respondents are started, running is set, the list `tasks` is created
StartRun ==
    /\ cp_pc = "respondents"
    /\ cp_pc' = "wait"
    /\ cp_running' = TRUE
    /\ sockets' = [k \in ListeningSockets |-> "open"]
    /\ loop_state' = [l \in Loops |->
                        IF l \in CancelledLoops THEN "created" ELSE loop_state[l]]
    /\ UNCHANGED shutdown_event
    /\ UNCHANGED <<serverVars, clientVars, execVars, queryVars, peerVars, subVars, portVars,
                   engineVars>>

\* the first step of a created activity: it runs to the head of its loop and
\* tests the loop's condition; it enters the loop or returns at once
LoopFirstStep(i) ==
    /\ StartYielded
    /\ loop_state[StartOrder[i]] = "created"
    /\ \A j \in 1..(i - 1) : loop_state[StartOrder[j]] # "created"
    /\ loop_state' = [loop_state EXCEPT ![StartOrder[i]] =
                        IF LoopCondition(StartOrder[i]) THEN "running" ELSE "ended"]
    /\ UNCHANGED <<cp_pc, cp_running, shutdown_event, sockets>>
    /\ UNCHANGED <<serverVars, clientVars, execVars, queryVars, peerVars, subVars, portVars,
                   engineVars>>

\* every activity start creates has taken its first step
AllStarted == \A l \in Loops : loop_state[l] \notin {"new", "created"}

InitStartup == InitFixedCache /\ InitClient(NoArg, DefaultRetries)

\* start resumes from its wait only after the first steps queued before it
NextStartup ==
    \/ StartSpawn
    \/ StartRun
    \/ \E i \in 1..Len(StartOrder) : LoopFirstStep(i)
    \/ SignalHandler
    \/ AllStarted /\ ShutdownStep
    \/ AllStarted /\ \E sid \in SubworkerIds : LiveRegistration(sid)

SpecStartup == InitStartup /\ [][NextStartup]_vars

(***************************************************************************)
(* Claims about the result cache (SpecCache).                              *)
(***************************************************************************)
KeySeq(cache) == [i \in 1..Len(cache) |-> cache[i].task_id]

LastN(seq, n) ==
    IF Len(seq) <= n THEN seq ELSE SubSeq(seq, Len(seq) - n + 1, Len(seq))

\* no entry can have expired so far: every age is at most now
NoExpirySoFar == now <= result_cache_ttl_seconds

\* C3: for a configured maximum M >= 1 the result cache never holds more than M
\* entries, whatever _store_result, _get_result and sweeper steps were taken.
C3_CacheBound == Len(result_cache) <= result_cache_max_size

\* a full cache after more distinct keys were stored than it can hold
C3_Witness ==
    /\ Len(result_cache) = result_cache_max_size
    /\ Len(touched) > result_cache_max_size

\* C4: while no entry has expired, the cache holds exactly the M most recently
\* touched distinct keys (stored, or returned by a successful get), in order of
\* touch, and a key that leaves the cache is the least recently touched one.
C4_LruOrder ==
    /\ [](NoExpirySoFar =>
            KeySeq(result_cache) = LastN(touched, result_cache_max_size))
    /\ [][NoExpirySoFar =>
            \A k \in CacheKeys(result_cache) \ CacheKeys(result_cache') :
                /\ k = result_cache[1].task_id
                /\ \A j \in CacheKeys(result_cache) \ {k} :
                     \E a, b \in 1..Len(touched) :
                        touched[a] = k /\ touched[b] = j /\ a < b]_vars

\* the LRU-touch scenario at M = 2: store task-0, task-1; get task-0; store task-2
C4_Witness ==
    /\ NoExpirySoFar
    /\ result_cache_max_size = 2
    /\ touched = <<"task-1", "task-0", "task-2">>
    /\ KeySeq(result_cache) = <<"task-0", "task-2">>
    /\ get_returned.task_id = "task-0"
    /\ get_returned.value # NoResult

\* C5: a _get_result(k) on an entry with now - stored_at > TTL returns none and
\* removes the entry; a successful get leaves stored_at as it was, so it never
\* postpones the expiry.
C5_TtlFromStoredAt ==
    [][\A k \in TaskIds :
         (GetResult(k) /\ k \in CacheKeys(result_cache)) =>
            IF now - CacheEntry(result_cache, k).stored_at > result_cache_ttl_seconds
            THEN /\ get_returned'.value = NoResult
                 /\ k \notin CacheKeys(result_cache')
            ELSE /\ get_returned'.value = CacheEntry(result_cache, k).result
                 /\ k \in CacheKeys(result_cache')
                 /\ CacheEntry(result_cache', k).stored_at
                        = CacheEntry(result_cache, k).stored_at
                 /\ CacheEntry(result_cache', k).last_accessed = now]_vars

\* a get found nothing for the only key ever stored, after its TTL had passed
C5_Witness ==
    /\ get_returned.value = NoResult
    /\ touched = <<get_returned.task_id>>
    /\ result_cache = <<>>
    /\ now > result_cache_ttl_seconds

(***************************************************************************)
(* Claims about the priority loops and forwarding (SpecDispatch).          *)
(***************************************************************************)
\* the step in which a forward of loop p fails: the dial, the send or the wait
\* for the subworker's reply raises
ForwardingFails(p) ==
    \/ /\ SelectSubworker(subworkers, p) # None
       /\ \E id \in DispatchTaskIds : ReceiveTask(p, id, SubmittedName(id), FALSE)
    \/ \E outcome \in ForwardOutcomes : ForwardSend(p, FALSE, outcome)
    \/ fwd_outcome[p] = "error" /\ ForwardRecv(p)

\* C1: when a subworker was selected and a step of forwarding fails (the dial, the
\* send, the wait for the reply), the loop goes on to execute the same Task locally
\* in the same handling round, and a round that executed locally replies on p.
C1_FallbackToLocal ==
    [][\A p \in Priorities :
         ForwardingFails(p) =>
            /\ pc'[p] = "local_exec"
            /\ cur'[p] # NoTask
            /\ cur'[p].priority = p]_vars

\* C2: a priority loop that waits for the reply of a subworker that will never
\* answer can take a step (its wait times out), so it does not wait forever.
C2_SilentSubworkerTimesOut ==
    \A p \in Priorities :
        (pc[p] = "fwd_recv" /\ fwd_outcome[p] = "silent") => ENABLED PriorityLoopStep(p)

\* C6: _select_subworker returns none iff no record is active; otherwise the id of
\* an active record whose load is minimal among the active records, whatever the
\* priority; and the loops forward to exactly that subworker.
C6_SelectLeastLoadedActive ==
    /\ \A p \in Priorities :
        LET sel == SelectSubworker(subworkers, p)
            activeIdx == {i \in 1..Len(subworkers) : subworkers[i].status = "active"}
        IN  /\ (sel = None) <=> (activeIdx = {})
            /\ sel # None =>
                 \E i \in activeIdx :
                    /\ subworkers[i].id = sel
                    /\ \A j \in activeIdx : subworkers[i].load <= subworkers[j].load
            /\ \A q \in Priorities : SelectSubworker(subworkers, q) = sel
    /\ \A p \in Priorities :
        pc[p] = "fwd_send" =>
            \E i \in 1..Len(subworkers) : subworkers[i].id = target[p]

\* two active subworkers with different loads and an inactive one cannot both be
\* seen with MaxDispatchRegs = 2, so: an inactive record with the least load next
\* to an active one that carries load, which is the one selected
C6_Witness ==
    \E i, j \in 1..Len(subworkers) :
        /\ subworkers[i].status = "inactive"
        /\ subworkers[j].status = "active"
        /\ subworkers[i].load < subworkers[j].load
        /\ SelectSubworker(subworkers, "normal") = subworkers[j].id

(***************************************************************************)
(* Claims about the registry and the liveness monitor (SpecRegistry).      *)
(***************************************************************************)
StatusOf(sws, sid) == Record(sws, sid).status

\* C7: after a liveness sweep every record whose last_seen is more than 30 s old is
\* inactive; with sweeps every 5 s no record older than 35 s is active; and an
\* inactive record stays inactive, and is not selected, until a registration or
\* heartbeat message for its id is processed.
C7_StaleBecomesInactive ==
    /\ [][MonitorSubworkers =>
            \A i \in 1..Len(subworkers) :
                now - subworkers[i].last_seen > StaleThreshold
                    => subworkers'[i].status = "inactive"]_vars
    /\ [](\A i \in 1..Len(subworkers) :
            now - subworkers[i].last_seen > StaleThreshold + SweepInterval
                => /\ subworkers[i].status = "inactive"
                   /\ \A p \in Priorities :
                        SelectSubworker(subworkers, p) # subworkers[i].id)
    /\ [][\A sid \in RegisteredIds(subworkers) :
            (/\ StatusOf(subworkers, sid) = "inactive"
             /\ ~ \E addr \in Addresses : HandleSubworkerRegistration(sid, addr, "active"))
                => /\ StatusOf(subworkers', sid) = "inactive"
                   /\ \A p \in Priorities : SelectSubworker(subworkers', p) # sid]_vars

\* a stale record was swept to inactive while another subworker is active and is
\* the one selected
C7_Witness ==
    \E i, j \in 1..Len(subworkers) :
        /\ now - subworkers[i].last_seen > StaleThreshold
        /\ subworkers[i].status = "inactive"
        /\ subworkers[j].status = "active"
        /\ SelectSubworker(subworkers, "normal") = subworkers[j].id

IdsOf(tasks) == [i \in 1..Len(tasks) |-> tasks[i].id]

IsDrainerActivity(act) == act.origin = "drainer"

\* C9: a submission that finds no known worker appends its Task to the pending
\* deque and writes PENDING; the drainer pops in FIFO order and starts exactly one
\* activity per popped Task, nothing is dropped or taken twice; and a Task that is
\* pending at a running client that knows a worker is eventually popped (unless
\* the client is stopped).
C9_PendingDrainedFifo ==
    /\ [](/\ queued = drained \o IdsOf(pending_tasks)
          /\ [i \in 1..Len(SelectSeq(activities, IsDrainerActivity)) |->
                SelectSeq(activities, IsDrainerActivity)[i].task.id] = drained
          /\ \A i, j \in 1..Len(queued) : queued[i] = queued[j] => i = j)
    /\ [][\A a \in 1..Len(activities) :
            (SubmitStart(a) /\ workers = {}) =>
                /\ pending_tasks' = Append(pending_tasks, activities[a].task)
                /\ task_results'[activities[a].task.id].status = "pending"]_vars
    /\ \A id \in TaskIds :
        ((\E i \in 1..Len(pending_tasks) : pending_tasks[i].id = id)
            /\ workers # {} /\ running)
        ~> ((\E i \in 1..Len(drained) : drained[i] = id) \/ ~running)

\* two Tasks were queued while no worker was known and were then popped by the
\* drainer, each with its own activity
C9_Witness ==
    /\ Len(drained) = 2
    /\ drained = queued
    /\ pending_tasks = <<>>
    /\ \E a \in 1..Len(activities) :
        activities[a].origin = "drainer" /\ activities[a].pc = "done"

\* C10: an activity makes at most retries + 1 attempts; an attempt that gets a
\* reply writes the reply's TaskResult and ends the activity; a timeout or an
\* exception in the last attempt writes a FAILURE TaskResult with an error and
\* ends it without a sleep; in an earlier attempt it begins one backoff sleep and
\* writes nothing; an ended activity makes no further attempt.
C10_RetriesBounded ==
    /\ [](\A a \in 1..Len(activities) :
            LET act == activities[a]
            IN  /\ act.attempts <= retries + 1
                /\ act.sleeps <= retries
                /\ act.pc = "attempt" => act.sleeps = act.attempts
                /\ act.pc = "backoff" => act.sleeps = act.attempts
                /\ (act.pc = "done" /\ act.attempts > 0) => act.sleeps = act.attempts - 1)
    /\ [][\A a \in 1..Len(activities) :
            /\ SubmitAttempt(a, "reply") =>
                    /\ activities'[a].pc = "done"
                    /\ task_results'[activities[a].task.id] = ExecuteTask(activities[a].task)
            /\ \A outcome \in {"timeout", "exception"} :
                SubmitAttempt(a, outcome) =>
                    IF activities[a].attempts = retries
                    THEN /\ activities'[a].pc = "done"
                         /\ activities'[a].sleeps = activities[a].sleeps
                         /\ task_results'[activities[a].task.id].task_id = activities[a].task.id
                         /\ task_results'[activities[a].task.id].status = "failure"
                         /\ task_results'[activities[a].task.id].error # None
                    ELSE /\ activities'[a].pc = "backoff"
                         /\ activities'[a].sleeps = activities[a].sleeps + 1
                         /\ task_results' = task_results
            /\ activities[a].pc = "done" => activities'[a] = activities[a]]_vars

\* an activity used up all its attempts, slept between them only, and FAILURE was
\* written; another got a reply at its second attempt
C10_Witness ==
    /\ retries >= 1
    /\ \E a \in 1..Len(activities) :
        /\ activities[a].pc = "done"
        /\ activities[a].attempts = retries + 1
        /\ activities[a].sleeps = retries
        /\ task_results[activities[a].task.id].status = "failure"
    /\ \E a \in 1..Len(activities) :
        /\ activities[a].pc = "done"
        /\ activities[a].attempts = 2
        /\ task_results[activities[a].task.id].status = "success"

(***************************************************************************)
(* Claims about the execution engine (SpecExecute).                        *)
(***************************************************************************)
\* C12: every run of _execute_task returns a TaskResult with the Task's id:
\* SUCCESS with the return value when the registered callable returns, FAILURE
\* with 'Task <name> not found' when the name is not registered, FAILURE with the
\* exception's message when the callable raises; started_at and completed_at are
\* set in every case.
C12_ExecuteAlwaysReturnsResult ==
    /\ [][ExecuteFinish => exec_result' # NoExecResult]_vars
    /\ [](exec_result # NoExecResult =>
            /\ exec_result.task_id = exec_task.id
            /\ exec_result.status \in {"success", "failure"}
            /\ exec_result.started_at = exec_task.started_at
            /\ exec_result.started_at >= 0
            /\ exec_result.completed_at >= exec_result.started_at
            /\ (exec_task.name \in RegisteredTasks \ RaisingTasks) =>
                    /\ exec_result.status = "success"
                    /\ exec_result.result = ReturnValue(exec_task.name)
                    /\ exec_result.error = None
            /\ exec_task.name \in UnregisteredNames =>
                    /\ exec_result.status = "failure"
                    /\ exec_result.error = NotFoundMessage(exec_task.name)
            /\ exec_task.name \in RaisingTasks =>
                    /\ exec_result.status = "failure"
                    /\ exec_result.error = ExceptionMessage(exec_task.name))

\* a run for an unregistered name ended with FAILURE some time after it started
C12_Witness ==
    /\ exec_task.name = "missing"
    /\ exec_result.status = "failure"
    /\ exec_result.error = "Task missing not found"
    /\ exec_result.completed_at > exec_result.started_at

(***************************************************************************)
(* Claims about the life of a Task (SpecLifecycle).                        *)
(***************************************************************************)
StatusRank(status) ==
    IF status = None THEN 0
    ELSE IF status = "pending" THEN 1
    ELSE IF status = "started" THEN 2
    ELSE 3

\* the status of the Task object a worker holds, or of the TaskResult once
\* _execute_task returned it
ObservedOnWorker(task, result) ==
    IF result # NoExecResult THEN result.status ELSE task.status

\* C11: the status recorded for an id in the client's result map, and the status
\* of a Task a worker executes, only move forward along PENDING, STARTED,
\* SUCCESS or PENDING, STARTED, FAILURE; a recorded SUCCESS or FAILURE is never
\* replaced by PENDING or by the other terminal status.
C11_StatusMovesForward ==
    /\ [][\A id \in TaskIds :
            /\ StatusRank(task_results'[id].status) >= StatusRank(task_results[id].status)
            /\ task_results[id].status \in {"success", "failure"}
                    => task_results'[id].status = task_results[id].status]_vars
    /\ [][(~ \E id \in TaskIds, name \in TaskNames : WorkerReceiveTask(id, name)) =>
            /\ StatusRank(ObservedOnWorker(exec_task', exec_result'))
                    >= StatusRank(ObservedOnWorker(exec_task, exec_result))
            /\ ObservedOnWorker(exec_task, exec_result) \in {"success", "failure"}
                    => ObservedOnWorker(exec_task', exec_result')
                            = ObservedOnWorker(exec_task, exec_result)]_vars

\* a Task that was queued with PENDING, drained, and answered at the second
\* attempt has SUCCESS recorded, and the worker's run of a Task ended in FAILURE
C11_Witness ==
    /\ task_results["task-0"].status = "success"
    /\ \E a \in 1..Len(activities) :
        /\ activities[a].task.id = "task-0"
        /\ activities[a].origin = "drainer"
        /\ activities[a].attempts = 2
    /\ ObservedOnWorker(exec_task, exec_result) = "failure"

(***************************************************************************)
(* Claims about result queries (SpecQuery).                                *)
(***************************************************************************)
\* the cache holds an unexpired entry for the id
CachedUnexpired(k) ==
    \E i \in 1..Len(result_cache) :
        /\ result_cache[i].task_id = k
        /\ now - result_cache[i].stored_at <= result_cache_ttl_seconds

Announced(msg) == <<msg[2], SubSeq(msg, 3, Len(msg))>>

\* C14: both listeners of the discovery bus record, for a message
\* WORKER_ANNOUNCE:<id>:<address>, the pair of the id and the verbatim address,
\* also when the address contains colons.
C14_AddressVerbatim ==
    [][\A msg \in BusMessages :
        (IsAnnounce(msg) /\ Len(msg) >= 3) =>
            /\ ListenForWorkers(msg) => Announced(msg) \in workers'
            /\ ListenForPeers(msg) => Announced(msg) \in peers']_vars

(***************************************************************************)
(* Claims about the load counters (SpecDispatch).                          *)
(***************************************************************************)
\* C15: the load of every subworker record is a non-negative integer in every
\* reachable state, whatever the interleaving of the four loops and whichever
\* forwards succeed or fail.
C15_LoadNonNegative ==
    \A i \in 1..Len(subworkers) : subworkers[i].load \in Nat

\* a forward failed and was re-queued while another loop's forward is counted
\* on the same subworker
C15_Witness ==
    /\ \E p \in Priorities : task_queue[p] # <<>>
    /\ \E i \in 1..Len(subworkers) : subworkers[i].load = 1
    /\ \E p, q \in Priorities :
        /\ p # q
        /\ pc[p] = "fwd_recv"
        /\ pc[q] = "recv"
        /\ task_queue[q] # <<>>

LoadOf(sid) == Record(subworkers, sid).load

\* C16: the load of the chosen subworker is incremented before the Task's bytes
\* are sent to it, so a loop that is sending or waiting for the reply is counted
\* in the load of its subworker; the decrement comes after the reply or a failure.
C16_IncrementBeforeSend ==
    \A p \in Priorities :
        pc[p] \in {"fwd_send", "fwd_recv"} => LoadOf(target[p]) >= 1

(***************************************************************************)
(* Claims about registration (SpecForward, SpecRegistry).                  *)
(***************************************************************************)
\* C17: the first registration message for an id creates a record with load 0,
\* registered_at = last_seen = now and the message's address and status; a later
\* message for the id sets status and last_seen = now and leaves load and
\* registered_at as they were; other records are not touched.
C17_RegistrationFrame ==
    [][\A sid \in SubworkerIds, addr \in Addresses, status \in {"active", "inactive"} :
        HandleSubworkerRegistration(sid, addr, status) =>
            /\ IF sid \in RegisteredIds(subworkers)
               THEN /\ Record(subworkers', sid).status = status
                    /\ Record(subworkers', sid).last_seen = now
                    /\ Record(subworkers', sid).load = Record(subworkers, sid).load
                    /\ Record(subworkers', sid).registered_at
                            = Record(subworkers, sid).registered_at
                    /\ Len(subworkers') = Len(subworkers)
               ELSE /\ Len(subworkers') = Len(subworkers) + 1
                    /\ Record(subworkers', sid) =
                            [id |-> sid, address |-> addr, status |-> status,
                             last_seen |-> now, load |-> 0, registered_at |-> now]
            /\ \A i \in 1..Len(subworkers) :
                    subworkers[i].id # sid => subworkers'[i] = subworkers[i]]_vars

\* a record that carries load was written by a later message: its status and
\* last_seen are the message's, registered_at is older
C17_Witness ==
    \E i \in 1..Len(subworkers) :
        /\ subworkers[i].load = 1
        /\ subworkers[i].status = "inactive"
        /\ subworkers[i].registered_at = 0
        /\ subworkers[i].last_seen > 0
        /\ pc["normal"] = "fwd_recv"

\* C18: a registration message for a known id that carries another address
\* replaces the record's address, so that later forwards to the subworker dial the
\* new address.
C18_ReRegistrationMovesAddress ==
    [][\A sid \in SubworkerIds, addr \in Addresses, status \in {"active", "inactive"} :
        (HandleSubworkerRegistration(sid, addr, status) /\ sid \in RegisteredIds(subworkers))
            => /\ Record(subworkers', sid).address = addr
               /\ DialAddress(subworkers', sid) = addr]_vars

\* C19: the registration loop has sent one response for every message it has
\* received, also for messages in which subworker_id or address is missing or
\* empty.
C19_AckEveryMessage == reg_acks = reg_handled

\* C20 as stated: in every reachable state a record is active if and only if its
\* last_seen is within the 30 s threshold of the current time.
C20_ActiveIffFresh ==
    \A i \in 1..Len(subworkers) :
        subworkers[i].status = "active" <=> now - subworkers[i].last_seen <= StaleThreshold

\* C20, amended: with registration messages that carry status active, an active
\* record has a last_seen at most 30 s plus one sweep interval (5 s) old, and an
\* inactive record has a last_seen more than 30 s old.
C20_ActiveWithinSweepOfFresh ==
    \A i \in 1..Len(subworkers) :
        /\ subworkers[i].status \in {"active", "inactive"}
        /\ subworkers[i].status = "active"
                => now - subworkers[i].last_seen <= StaleThreshold + SweepInterval
        /\ subworkers[i].status = "inactive"
                => now - subworkers[i].last_seen > StaleThreshold

\* a record is past the threshold and still active, the sweep being due, next to
\* a record that an earlier sweep made inactive
C20_Witness ==
    \E i, j \in 1..Len(subworkers) :
        /\ subworkers[i].status = "active"
        /\ now - subworkers[i].last_seen > StaleThreshold
        /\ subworkers[j].status = "inactive"

\* C21: whenever a priority loop sends a TaskResult to a client (executed locally,
\* relayed from a subworker, or the synthesized FAILURE), the result cache holds
\* an entry for that id with the same result when the send is made, and a
\* _get_result of the id right after the reply returns that result unless the
\* entry has expired.
C21_ReplyIsCached ==
    [][\A p \in Priorities :
          replies'[p] # replies[p] =>
              LET r == replies'[p][Len(replies'[p])]
              IN  /\ r.task_id \in CacheKeys(result_cache)
                  /\ CacheEntry(result_cache, r.task_id).result = r
                  /\ result_cache' = result_cache
                  /\ \/ GetResultValue(result_cache', r.task_id, now',
                                       result_cache_ttl_seconds') = r
                     \/ IsExpired(CacheEntry(result_cache', r.task_id), now',
                                  result_cache_ttl_seconds')]_vars

\* two replies have been sent on one endpoint: a SUCCESS, and then the FAILURE
\* synthesized after a failed send, which is in the cache
C21_Witness ==
    \E p \in Priorities :
        /\ Len(replies[p]) >= 2
        /\ \E i \in 1..Len(replies[p]) : replies[p][i].status = "success"
        /\ replies[p][Len(replies[p])].error = "send failed"
        /\ replies[p][Len(replies[p])].task_id \in CacheKeys(result_cache)
        /\ CacheEntry(result_cache, replies[p][Len(replies[p])].task_id).result
                = replies[p][Len(replies[p])]

(***************************************************************************)
(* Claims about the subworker's registration (SpecSubworker).              *)
(***************************************************************************)
\* C22: a registration attempt that ends without an ack of status registered
\* leaves the subworker unregistered; every tick of the heartbeat loop that finds
\* it unregistered starts a full registration; and while the endpoint it dials
\* keeps answering, a running unregistered subworker that has a tick left
\* becomes registered.
C22_RetriesUntilRegistered ==
    /\ [][(sub_pc \in {"reg_send", "reg_wait"} /\ sub_pc' \in {"sleep", "done"})
            => (registered' <=> last_ack' = "registered")]_vars
    /\ [][(sub_pc = "sleep" /\ sub_pc' # "sleep" /\ ~registered)
            => sub_pc' = "reg_send"]_vars
    /\ (endpoint = "answering" /\ sub_running /\ ~registered /\ ticks < MaxTicks)
            ~> (registered \/ endpoint # "answering" \/ ~sub_running)

\* the latest attempt timed out or failed, the subworker is unregistered, and the
\* second tick of the heartbeat loop has started another full registration
C22_Witness ==
    /\ ~registered
    /\ last_ack = None
    /\ sub_loop
    /\ ticks >= 2
    /\ sub_pc = "reg_send"

\* C23: a heartbeat whose wait for the ack times out leaves a registered
\* subworker registered, and the heartbeat path clears the flag only when an
\* ack with a status other than registered was received.
C23_OnlyOtherAckUnregisters ==
    /\ [][(sub_pc = "hb_wait" /\ sub_pc' # "hb_wait" /\ endpoint = "silent")
            => registered' = registered]_vars
    /\ [][(sub_pc \in {"hb_send", "hb_wait"} /\ registered /\ ~registered')
            => (sub_pc = "hb_wait" /\ last_ack' = "other")]_vars

\* a heartbeat's timeout alone never clears the flag
C23_TimeoutKeepsRegistered ==
    [][(sub_pc = "hb_wait" /\ sub_pc' # "hb_wait" /\ endpoint = "silent")
            => registered' = registered]_vars

(***************************************************************************)
(* Claims about start and shutdown of the control plane (SpecShutdown).    *)
(***************************************************************************)
AllLoopsEnded == \A l \in Loops : loop_state[l] = "ended"

ListenersClosed == \A k \in ListeningSockets : sockets[k] = "closed"

\* C24: once the shutdown event is set, the control plane gets to a state in
\* which all eleven loops have ended and every socket it had open is closed: the
\* seven listening sockets and every requester dialed to a subworker.
C24_ShutdownClosesEverySocket ==
    shutdown_event ~>
        (AllLoopsEnded /\ ListenersClosed /\ \A p \in Priorities : ~OutboundOpen(p))

\* the part of it that holds: the loops end and the listening sockets are closed
C24_LoopsEndListenersClosed ==
    shutdown_event ~> (AllLoopsEnded /\ ListenersClosed)

(***************************************************************************)
(* Claims about the ports (SpecPorts).                                     *)
(***************************************************************************)
\* C25: for a control plane built on a base address with port P, the registry
\* listens on P + 5, and a SubWorker given the same address dials that port.
C25_RegistryListensOnBasePlusFive ==
    cp_base_port >= 0 =>
        /\ registry_port = BasePort(cp_base_port) + ManagementOffset
        /\ sub_cp_port = cp_base_port => management_port = registry_port

(***************************************************************************)
(* Claims about the order of requests and replies (SpecDispatch).          *)
(***************************************************************************)
\* where a priority loop stands while a send to the client is in flight
SendStates == {"local_send", "fwd_reply", "error_send"}

RECURSIVE CountReplies(_)
CountReplies(ps) ==
    IF ps = {} THEN 0
    ELSE LET p == CHOOSE q \in ps : TRUE
         IN  Len(replies[p]) + CountReplies(ps \ {p})

C27_LocallyExecutedIsCached ==
    /\ \A p \in Priorities :
            pc[p] = "local_send" => cur[p].id \in CacheKeys(result_cache)
    /\ \A id \in bg_executed : id \in CacheKeys(result_cache)

(***************************************************************************)
(* More claims about the result cache (SpecCache).                         *)
(***************************************************************************)
\* the entries of the other keys, in their order
Others(cache, k) == SelectSeq(cache, LAMBDA e : e.task_id # k)

\* C28: a _store_result for a key that is in the cache, also when the cache is
\* full, leaves the set of keys as it was, puts the key at the most-recently-used
\* end with the new result, leaves the entries of the other keys and their order
\* alone, and a _get_result of the key right after it returns the new result.
C28_RestoreReplacesInPlace ==
    [][\A r \in CacheResults :
          (/\ r.task_id \in CacheKeys(result_cache)
           /\ result_cache' = StoreResultCache(result_cache, result_cache_max_size,
                                               r, now))
          => /\ CacheKeys(result_cache') = CacheKeys(result_cache)
             /\ Len(result_cache') = Len(result_cache)
             /\ result_cache'[Len(result_cache')].task_id = r.task_id
             /\ result_cache'[Len(result_cache')].result = r
             /\ Others(result_cache', r.task_id) = Others(result_cache, r.task_id)
             /\ GetResultValue(result_cache', r.task_id, now',
                               result_cache_ttl_seconds') = r]_vars

\* the cache is full, a get returned SUCCESS for a key, and a later store has put
\* a FAILURE under the same key, at the most-recently-used end, the other key
\* being still there
C28_Witness ==
    /\ Len(result_cache) = MaxCacheSize
    /\ result_cache_max_size = MaxCacheSize
    /\ get_returned.value.status = "success"
    /\ result_cache[Len(result_cache)].task_id = get_returned.task_id
    /\ result_cache[Len(result_cache)].result.status = "failure"

\* the position of a key in the cache
PositionOf(cache, k) == CHOOSE i \in 1..Len(cache) : cache[i].task_id = k

\* C29: one pass of the sweeper leaves no entry with now - stored_at > TTL, keeps
\* every entry that is not that old, with its result and its timestamps, adds
\* nothing, and keeps the entries it leaves in the order they were in.
C29_SweepRemovesExactlyExpired ==
    [][result_cache' = CleanupCache(result_cache, now, result_cache_ttl_seconds)
        => /\ \A i \in 1..Len(result_cache') :
                    now - result_cache'[i].stored_at <= result_cache_ttl_seconds
           /\ \A i \in 1..Len(result_cache) :
                    now - result_cache[i].stored_at <= result_cache_ttl_seconds
                        => \E j \in 1..Len(result_cache') :
                                result_cache'[j] = result_cache[i]
           /\ \A j \in 1..Len(result_cache') :
                    \E i \in 1..Len(result_cache) : result_cache[i] = result_cache'[j]
           /\ \A i, j \in 1..Len(result_cache') :
                    i < j => PositionOf(result_cache, result_cache'[i].task_id)
                                < PositionOf(result_cache, result_cache'[j].task_id)]_vars

\* two keys were stored at different times, no get was made and no eviction was
\* possible; a pass of the sweeper has removed the older entry, which had expired,
\* and has left the younger one
C29_Witness ==
    /\ result_cache_max_size = MaxCacheSize
    /\ get_returned.task_id = None
    /\ Len(touched) = 2
    /\ Len(result_cache) = 1
    /\ result_cache[1].task_id = touched[2]
    /\ now - result_cache[1].stored_at <= result_cache_ttl_seconds

(***************************************************************************)
(* Claims about the registry under load (SpecRevive).                      *)
(***************************************************************************)
\* C30: no step removes a record or changes its id, address or registered_at; a
\* step that makes an active record inactive changes nothing else of it; and a
\* registration or heartbeat message that reaches an inactive record makes it
\* active with its load and registered_at kept, so that _select_subworker
\* returns it unless another active record has a load that is not greater.
C30_RecordsStayAndRevive ==
    [][/\ Len(subworkers') >= Len(subworkers)
       /\ \A i \in 1..Len(subworkers) :
            /\ subworkers'[i].id = subworkers[i].id
            /\ subworkers'[i].address = subworkers[i].address
            /\ subworkers'[i].registered_at = subworkers[i].registered_at
            /\ (subworkers[i].status = "active" /\ subworkers'[i].status = "inactive")
                    => subworkers'[i] = [subworkers[i] EXCEPT !.status = "inactive"]
            /\ (subworkers[i].status = "inactive"
                    /\ subworkers'[i].last_seen # subworkers[i].last_seen)
                    => /\ subworkers'[i].status = "active"
                       /\ subworkers'[i].last_seen = now
                       /\ subworkers'[i].load = subworkers[i].load
                       /\ \/ SelectSubworker(subworkers', "normal") = subworkers[i].id
                          \/ \E j \in 1..Len(subworkers') :
                                /\ j # i
                                /\ subworkers'[j].status = "active"
                                /\ subworkers'[j].load <= subworkers'[i].load]_vars

\* the registration loop has handled two messages, both of one subworker and 40 s
\* or more apart, so that a sweep made the record inactive in between; the record
\* is active again, it has kept the load of the forward that is in flight, and
\* _select_subworker returns it
C30_Witness ==
    /\ reg_handled = 2
    /\ Len(subworkers) = 1
    /\ subworkers[1].status = "active"
    /\ subworkers[1].load = 1
    /\ subworkers[1].last_seen - subworkers[1].registered_at
            >= StaleThreshold + 2 * SweepInterval
    /\ SelectSubworker(subworkers, "normal") = subworkers[1].id

(***************************************************************************)
(* Claims about dialers, callbacks and replies                             *)
(***************************************************************************)

\* C31: no short-lived dialer stays open after its operation ends; for the
\* control plane's outbound dial to a subworker: whenever a priority loop is not
\* inside a forward, it holds no requester that was started and not closed
C31_NoDialerLeftOpen ==
    \A p \in Priorities : ~OutboundOpen(p) => requesters[p] = 0

\* C32: with a callback descriptor the engine calls _send_callback exactly once
\* per execution and only after the TaskResult was built; whatever the dial or
\* the send of the callback does, the TaskResult that is returned and handed to
\* respondent.send is the one the execution determined; a delivered callback
\* carries that result; without a descriptor no Pair socket is created
C32_OneCallbackResultUnchanged ==
    /\ [](wk_pc = "call" => cb_calls = 0 /\ pair_sockets = 0 /\ wk_result = NoResult)
    /\ [](wk_pc \in {"cb_send", "reply"} =>
            /\ wk_result = ExecuteTask(wk_task)
            /\ cb_calls = (IF wk_task.callback THEN 1 ELSE 0)
            /\ pair_sockets <= cb_calls)
    /\ [](wk_pc = "cb_send" => wk_task.callback /\ pair_sockets = 1)
    /\ [][callbacks' # callbacks =>
            /\ wk_pc = "cb_send"
            /\ callbacks' = Append(callbacks, CallbackPayload(ExecuteTask(wk_task)))]_vars
    /\ [][wk_sends' # wk_sends =>
            /\ Len(wk_sends') = Len(wk_sends) + 1
            /\ wk_sends'[Len(wk_sends')].result = ExecuteTask(wk_task)]_vars

\* a Task with a callback descriptor whose callable returned: the callback was
\* attempted once and not delivered, and the result handed to respondent.send
\* is the SUCCESS result
C32_Witness ==
    /\ wk_pc = "recv"
    /\ wk_task.callback
    /\ cb_calls = 1
    /\ callbacks = <<>>
    /\ Len(wk_sends) = 1
    /\ wk_sends[1].result = TaskResult("task-0", "success", None)

C34_ExplicitRetriesUsed ==
    retries_arg # NoArg =>
        \A a \in 1..Len(activities) : activities[a].attempts <= retries_arg + 1

\* the (id, address) pairs the announcements on the bus carry
AnnouncedWorkers ==
    {<<Split2(msg)[2], Split2(msg)[3]>> :
        msg \in {m \in DiscoveryMessages : IsAnnounce(m) /\ Len(Split2(m)) >= 3}}

\* C40: the client's set of known workers only grows: no step removes a pair,
\* an announcement of a known pair leaves the set as it is, the set holds only
\* announced pairs, and a submission that finds the set non-empty dials a
\* worker of the set, which is still in the set while the submission goes on
C40_WorkersOnlyGrow ==
    /\ [][workers \subseteq workers']_vars
    /\ [][\A msg \in DiscoveryMessages :
            (/\ ListenForWorkers(msg)
             /\ IsAnnounce(msg)
             /\ Len(Split2(msg)) >= 3
             /\ <<Split2(msg)[2], Split2(msg)[3]>> \in workers)
            => workers' = workers]_vars
    /\ [](workers \subseteq AnnouncedWorkers)
    /\ [][\A a \in 1..Len(activities) :
            (activities[a].pc = "start" /\ workers # {})
            => (activities'[a].pc = "start"
                \/ \E w \in workers : activities'[a].worker = w[1])]_vars
    /\ [](\A a \in 1..Len(activities) :
            activities[a].pc \in {"attempt", "backoff"}
            => \E w \in workers : activities[a].worker = w[1])

\* both announced workers are known, the client has been stopped since, and a
\* submission that began when only one of them was known is still trying it
C40_Witness ==
    /\ Cardinality(workers) = 2
    /\ ~running
    /\ discovery_bus = "closed"
    /\ \E a \in 1..Len(activities) :
            /\ activities[a].pc = "backoff"
            /\ \E w \in workers : activities[a].worker = w[1]

(***************************************************************************)
(* Claims about load accounting and selection (SpecDispatch)               *)
(***************************************************************************)
\* the loops that are inside a forward to the subworker sid
ForwardsInProgress(sid) == {p \in Priorities : OutboundOpen(p) /\ target[p] = sid}

\* the loops whose forward to sid has sent the Task and waits for the reply
ForwardsAwaitingReply(sid) == {p \in Priorities : pc[p] = "fwd_recv" /\ target[p] = sid}

\* C35: for every subworker the load counter is at most the number of forwards
\* to it that are in progress (indeed at most those waiting for the reply), and
\* it is 0 whenever no forward to it is in progress, whichever of the send, the
\* recv and the relay fail and however the loops interleave
C35_LoadBoundedByForwards ==
    \A i \in 1..Len(subworkers) :
        /\ subworkers[i].load <= Cardinality(ForwardsAwaitingReply(subworkers[i].id))
        /\ subworkers[i].load <= Cardinality(ForwardsInProgress(subworkers[i].id))
        /\ ForwardsInProgress(subworkers[i].id) = {} => subworkers[i].load = 0

\* a forward failed (its send before the increment, or its relay after the
\* decrement) and decremented once more than it had incremented, while another
\* loop still waits for the same subworker's reply: the counter is 0 with one
\* forward in progress, and the failed round's Task is back in its deque
C35_Witness ==
    \E i \in 1..Len(subworkers), p \in Priorities :
        /\ ForwardsAwaitingReply(subworkers[i].id) = {p}
        /\ subworkers[i].load = 0
        /\ \E q \in Priorities \ {p} : task_queue[q] # <<>> /\ replies[q] = <<>>
        /\ requests_received = 2

\* the active records other than sid whose load is 0
IdleOthers(sid) ==
    {i \in 1..Len(subworkers) :
        /\ subworkers[i].id # sid
        /\ subworkers[i].status = "active"
        /\ subworkers[i].load = 0}

\* C36: selection and load increment of one submission are atomic for the other
\* loops: when a loop selects a subworker while another endpoint's forward is
\* between its own selection and its reply, and a second active subworker with
\* load 0 exists, the Task goes to a subworker other than the one the forward
\* in progress has chosen
C36_ConcurrentForwardsSpread ==
    [][\A p, q \in Priorities :
        (/\ p # q
         /\ pc[p] \in {"fwd_send", "fwd_recv"}
         /\ Record(subworkers, target[p]).status = "active"
         /\ IdleOthers(target[p]) # {}
         /\ pc[q] = "recv"
         /\ pc'[q] = "fwd_send")
        => target'[q] # target[p]]_vars


\* C37: a SUCCESS TaskResult that local execution produced and stored stays in
\* the cache when the reply cannot be sent: the cache holds no FAILURE for a
\* Task whose callable returned
C37_CachedSuccessSurvivesSendFailure ==
    \A i \in 1..Len(result_cache) :
        (\E p \in Priorities :
            /\ cur[p].id = result_cache[i].task_id
            /\ pc[p] \in {"local_send", "error_send"}
            /\ ExecuteTask(cur[p]).status = "success")
        => result_cache[i].result.status = "success"

(***************************************************************************)
(* Claims about the start of the control plane (SpecStartup)               *)
(***************************************************************************)

\* C38: each loop start creates before it sets running (announcer, registration
\* handler, result-query handler, peer listener) tests its loop condition for
\* the first time only when running is true, each of them is still there when
\* start begins to wait for the shutdown event, and none of them has returned
\* while start waits and no shutdown was signalled
C38_EarlyLoopsSeeRunning ==
    /\ [][\A l \in ForgottenLoops :
            (loop_state[l] = "created" /\ loop_state'[l] # "created") => cp_running]_vars
    /\ [][(cp_pc # "wait" /\ cp_pc' = "wait") =>
            \A l \in ForgottenLoops : loop_state'[l] = "created"]_vars
    /\ [](\A l \in ForgottenLoops :
            (cp_pc = "wait" /\ ~shutdown_event) => loop_state[l] \in {"created", "running"})

\* start waits for the shutdown event, no signal has come, and the four early
\* loops have each tested their condition and entered their loop
C38_Witness ==
    /\ cp_pc = "wait"
    /\ ~shutdown_event
    /\ cp_running
    /\ \A l \in ForgottenLoops : loop_state[l] = "running"
    /\ loop_state["critical"] = "created"

(***************************************************************************)

(* Claims about the subworker's registration socket (SpecSubworker)        *)
(***************************************************************************)

\* C39: on its registration and heartbeat socket the subworker alternates send
\* and recv: a registration or heartbeat message is sent only when no earlier
\* message on the same socket is still unanswered, also on the tick after a
\* heartbeat's wait for the ack timed out
C39_SendOnlyWhenAnswered ==
    [][(sub_pc = "hb_send" /\ sub_pc' = "hb_wait") => ~unanswered]_vars

=============================================================================
